---- MODULE Spec2Model ----
(***************************************************************************)
(* TaskTroll: the background service worker (src/src/background.ts) with   *)
(* its expiry scheduler checkTasks and its notification dispatcher         *)
(* pushNotificationImmediately, and the response parsers of the popup      *)
(* (safeParseJSON, parseTasks).                                            *)
(*                                                                         *)
(* Time is Date.now() in milliseconds; the clock moves in steps of         *)
(* ClockStep.  chrome.storage.local serves the requests of the service     *)
(* worker in the order they were issued: a get reads, and a set writes,    *)
(* when it is issued, and the completions (promise resolutions and         *)
(* callbacks) come back in that order through cbq.  The popup and the      *)
(* completion service are other processes: their steps fall anywhere.      *)
(* The timestamp of a pending entry is left out of the entry.              *)
(***************************************************************************)
EXTENDS Integers, Sequences, FiniteSets, TLC

\* ---------------------------------------------------------------- bounds
MaxTasks == 2
MaxClockSteps == 2
MaxStarts == 2
MaxMsgs == 2
MaxItems == 2
MaxLen == 3
MaxAppTasks == 2
MaxMessages == 3

\* ------------------------------------------------------------- constants
timeboxDuration == 10 * 1000
missingCreatedOffset == 5000

\* The clock moves by half a timebox at a time
ClockStep == timeboxDuration \div 2
StartTime == ClockStep

NoTask == 0
\* remainingTime of a task that has none (undefined)
NoTime == -1
TaskIds == 1..MaxTasks
Invocations == 1..2

DEFAULT_BLAME_MESSAGES ==
  << "Cong viec cua ban da qua han!",
     "Ban da khong hoan thanh cong viec dung han.",
     "Thoi gian da het! Cong viec chua hoan thanh.",
     "Ban da tre han cho cong viec nay roi!" >>

\* background.ts 370-396: the create call succeeds, or only its retry, or neither
CreateOutcomes == {"created", "retried", "rejected"}

\* A host may also lack one of the APIs the worker calls (background.ts 549-553 logs
\* each of them as 'Available' or 'Not available'): the call then throws
Throws == {"badgeThrows", "storageThrows", "createThrows"}

\* A host may refuse a write to chrome.storage.local (the quota is used up, the
\* write rate is exceeded): the promise of set is then rejected
Hosts == CreateOutcomes \cup Throws \cup {"setRejects"}

\* chrome.storage.local aiConfig: present is false when the key is not stored,
\* hasEnabled is false when the object has no member enabled
NoConfig == [present |-> FALSE, hasEnabled |-> FALSE, enabled |-> FALSE, apiKey |-> "",
             provider |-> ""]
Configs ==
  { NoConfig,
    [present |-> TRUE, hasEnabled |-> TRUE, enabled |-> TRUE, apiKey |-> "key",
     provider |-> "openrouter"] }

\* README.md 22: the providers listed as supported
Providers == {"openai", "gemini", "deepseek", "openrouter"}

\* background.ts 302-311 (part_000 797-851, 1372-1416): the cases of the switch
\* that make a completion request
RequestProviders == {"openai", "openrouter", "gemini"}

\* Any aiConfig the storage may hold
StoredConfigs ==
  { NoConfig }
  \cup { [present |-> TRUE, hasEnabled |-> flags[1], enabled |-> flags[2], apiKey |-> apiKey,
          provider |-> provider] :
            flags \in { << FALSE, FALSE >>, << TRUE, FALSE >>, << TRUE, TRUE >> },
            apiKey \in {"", "key"},
            provider \in Providers \cup {""} }

VARIABLES
  now,                  \* Date.now()
  todos,                \* chrome.storage.local: todos
  pendingBlameMessages, \* chrome.storage.local: pendingBlameMessages
  showNotification,     \* chrome.storage.local: showNotification
  aiConfig,             \* chrome.storage.local: aiConfig
  badge,                \* chrome.action badge text is '!!'
  alerted,              \* pushNotificationImmediately was called since the popup last
                        \* connected
  notifications,        \* platform notifications that exist: <<taskId, noicon>>
  host,                 \* how chrome.notifications.create answers on this host, or
                        \* the API whose calls throw on it
  inv,                  \* the checkTasks invocations in progress
  cbq,                  \* storage completions not yet delivered, oldest first
  nextId,               \* the next task's id
  starts,               \* checkTasks invocations started so far
  msgs,                 \* runtime messages handled so far
  nExpired,             \* per task id: false -> true transitions written
  nRequest,             \* per task id: completion requests issued
  nPush,                \* per task id: dispatches made by checkTasks
  nDispatch,            \* calls of pushNotificationImmediately, all
  handled,              \* task ids the taskCompleted handler was called for
  quiet,                \* task ids whose handler has finished, no dispatch begun since
  doneEarly,            \* task ids completed before their expiry time
  doneNow,              \* `now` of the last invocation that finished, 0 if none
  response,             \* popup: the text the completion service answered, and to whom
  blameResult,          \* popup: what safeParseJSON returned for it
  taskResult,           \* popup: what parseTasks returned for it
  appTodos,             \* popup: the React state todos of App
  localStorageTodos,    \* popup: localStorage 'todos'
  appAI,                \* popup: aiConfig is enabled and holds an apiKey
  appProvider,          \* popup: aiConfig.provider
  requests,             \* popup: the completion request in progress of each kind
  chat,                 \* popup: the messages of the chat
  sentAt                \* popup: Date.now() of the last message the user sent, 0 if none

store == << todos, pendingBlameMessages, showNotification, aiConfig >>
alerts == << badge, alerted, notifications, host >>
world == << now, nextId, starts, msgs >>
counts == << nExpired, nRequest, nPush, nDispatch >>
marks == << handled, quiet, doneEarly, doneNow >>
parsers == << response, blameResult, taskResult >>
app == << appTodos, localStorageTodos, appAI, appProvider, requests, chat, sentAt >>
popup == << parsers, app >>
service == << store, alerts, world, counts, marks, inv, cbq >>

vars == << store, alerts, world, counts, marks, inv, cbq, popup >>

\* ------------------------------------------------- text (popup, part_000)
\* A text is the sequence of its characters; a letter with a diacritic is written
\* as its base letter (to the parsers every letter is an ordinary character)
Chars(str) == [i \in 1..Len(str) |-> SubSeq(str, i, i)]

Min(S) == CHOOSE x \in S : \A y \in S : x <= y
Max(S) == CHOOSE x \in S : \A y \in S : x >= y

\* \s of a regular expression, and the white space JSON.parse and trim() skip
WhiteSpace == {" ", "\n", "\t", "\r"}
Digits == {"0", "1", "2", "3", "4", "5", "6", "7", "8", "9"}
Quote == "\""
\* The character ` (a string of the module cannot hold it) and the code fence
Backtick == "backtick"
Fence == << Backtick, Backtick, Backtick >>

\* The pieces joined, taken by halves
RECURSIVE Flatten(_)
Flatten(pieces) ==
  IF Len(pieces) = 0 THEN << >>
  ELSE IF Len(pieces) = 1 THEN pieces[1]
  ELSE Flatten(SubSeq(pieces, 1, Len(pieces) \div 2))
       \o Flatten(SubSeq(pieces, Len(pieces) \div 2 + 1, Len(pieces)))

StartsAt(text, pat, i) ==
  i >= 1 /\ i + Len(pat) - 1 <= Len(text) /\ SubSeq(text, i, i + Len(pat) - 1) = pat

\* String.prototype.indexOf from position i on, positions counted from 1; 0: absent
IndexOf(text, pat, i) ==
  LET hits == { j \in i..Len(text) : StartsAt(text, pat, j) }
  IN  IF hits = {} THEN 0 ELSE Min(hits)

includes(text, str) == IndexOf(text, Chars(str), 1) # 0

\* The first position from i on that holds no white space (Len + 1: none)
SkipSpace(text, i) ==
  LET rest == { j \in i..Len(text) : text[j] \notin WhiteSpace }
  IN  IF rest = {} THEN Len(text) + 1 ELSE Min(rest)

trim(text) ==
  LET keep == { j \in 1..Len(text) : text[j] \notin WhiteSpace }
  IN  IF keep = {} THEN << >> ELSE SubSeq(text, Min(keep), Max(keep))

UpperCase == Chars("ABCDEFGHIJKLMNOPQRSTUVWXYZ")
LowerCase == Chars("abcdefghijklmnopqrstuvwxyz")
toLowerCase(text) ==
  [i \in 1..Len(text) |->
     IF \E n \in 1..26 : UpperCase[n] = text[i]
     THEN LowerCase[CHOOSE n \in 1..26 : UpperCase[n] = text[i]]
     ELSE text[i]]

\* part_000 920, 1515: the group of text.match(/FENCE(?:json)?\s*([\s\S]*?)FENCE/)
FencedBlock(text) ==
  LET open == IndexOf(text, Fence, 1)
      tag == IF StartsAt(text, Chars("json"), open + 3) THEN open + 7 ELSE open + 3
      from == SkipSpace(text, tag)
      close == IndexOf(text, Fence, from)
  IN  IF open = 0 \/ close = 0 THEN << >> ELSE SubSeq(text, from, close - 1)

\* part_000 918-925, 1514-1520
Unfenced(text) == IF FencedBlock(text) # << >> THEN trim(FencedBlock(text)) ELSE text

\* part_000 932: text.split(/[.!?][\s\n]+/)
RECURSIVE split(_)
split(text) ==
  LET ends == { j \in 1..(Len(text) - 1) :
                  text[j] \in {".", "!", "?"} /\ text[j + 1] \in WhiteSpace }
  IN  IF ends = {} THEN << text >>
      ELSE << SubSeq(text, 1, Min(ends) - 1) >>
           \o split(SubSeq(text, SkipSpace(text, Min(ends) + 1), Len(text)))

\* part_000 941, 1523: text.replace(/^[^{]*/, '').replace(/[^}]*$/, '')
StripToBraces(text) ==
  LET open == IndexOf(text, << "{" >>, 1)
      closes == { j \in open..Len(text) : text[j] = "}" }
  IN  IF open = 0 \/ closes = {} THEN << >> ELSE SubSeq(text, open, Max(closes))

QuoteRank(text, i) == Cardinality({ j \in 1..i : text[j] = Quote })

\* part_000 945: text.replace(/"([^"]*)"([^"]*)"([^"]*)"/g, '"$1\\"$2\\"$3"'):
\* the quotes are taken four at a time, the second and third of each four escaped
EscapeInnerQuotes(text) ==
  LET taken == 4 * (QuoteRank(text, Len(text)) \div 4)
  IN  Flatten([i \in 1..Len(text) |->
                 IF /\ text[i] = Quote
                    /\ QuoteRank(text, i) <= taken
                    /\ QuoteRank(text, i) % 4 \in {2, 3}
                 THEN << "\\", Quote >> ELSE << text[i] >>])

\* part_000 948: text.replace(/"\s*"/g, '", "')
RECURSIVE SeparateQuotes(_)
SeparateQuotes(text) ==
  LET hits == { j \in 1..Len(text) : /\ text[j] = Quote
                                      /\ SkipSpace(text, j + 1) <= Len(text)
                                      /\ text[SkipSpace(text, j + 1)] = Quote }
      first == Min(hits)
  IN  IF hits = {} THEN text
      ELSE SubSeq(text, 1, first - 1) \o Chars("\", \"")
           \o SeparateQuotes(SubSeq(text, SkipSpace(text, first + 1) + 1, Len(text)))

\* part_000 951: text.replace(/,\s*]/g, ']')
RECURSIVE DropTrailingCommas(_)
DropTrailingCommas(text) ==
  LET hits == { j \in 1..Len(text) : /\ text[j] = ","
                                      /\ SkipSpace(text, j + 1) <= Len(text)
                                      /\ text[SkipSpace(text, j + 1)] = "]" }
      first == Min(hits)
  IN  IF hits = {} THEN text
      ELSE SubSeq(text, 1, first - 1) \o << "]" >>
           \o DropTrailingCommas(SubSeq(text, SkipSpace(text, first + 1) + 1, Len(text)))

\* part_000 940-951
Repaired(text) == DropTrailingCommas(SeparateQuotes(EscapeInnerQuotes(StripToBraces(text))))

\* ------------------------------------------------- JSON values
\* A value of JavaScript: t is its kind, s the characters of a string (or the
\* literal of a number or boolean), a the elements of an array or the member values
\* of an object, k the member names of an object
JValue(t, s, a, k) == [t |-> t, s |-> s, a |-> a, k |-> k]
JString(s) == JValue("string", s, << >>, << >>)
JNumber(s) == JValue("number", s, << >>, << >>)
JBoolean(s) == JValue("boolean", s, << >>, << >>)
JNull == JValue("null", << >>, << >>, << >>)
JArray(a) == JValue("array", << >>, a, << >>)
JObject(k, a) == JValue("object", << >>, a, k)
Undefined == JValue("undefined", << >>, << >>, << >>)

\* ToBoolean
Truthy(v) ==
  CASE v.t = "string" -> v.s # << >>
    [] v.t = "number" -> \E i \in 1..Len(v.s) : v.s[i] \in Digits \ {"0"}
    [] v.t = "boolean" -> v.s = Chars("true")
    [] v.t \in {"null", "undefined"} -> FALSE
    [] OTHER -> TRUE

\* a || b
Or(a, b) == IF Truthy(a) THEN a ELSE b

\* v.name, for a v that is neither null nor undefined ("length" is never asked for)
Get(v, name) ==
  IF v.t = "object" /\ \E n \in 1..Len(v.k) : v.k[n] = Chars(name)
  THEN v.a[CHOOSE n \in 1..Len(v.k) : v.k[n] = Chars(name)]
  ELSE Undefined

\* A member is added to an object, a repeated name replacing the earlier value
Put(obj, name, v) ==
  IF \E n \in 1..Len(obj.k) : obj.k[n] = name
  THEN [obj EXCEPT !.a[CHOOSE n \in 1..Len(obj.k) : obj.k[n] = name] = v]
  ELSE [obj EXCEPT !.k = Append(@, name), !.a = Append(@, v)]

\* JSON.parse: a step of the parser gives the value read and the position after it
Read(v, i) == [ok |-> TRUE, v |-> v, i |-> i]
Failed == [ok |-> FALSE, v |-> Undefined, i |-> 0]

Escapes ==
  (Quote :> Quote) @@ ("\\" :> "\\") @@ ("/" :> "/") @@ ("n" :> "\n") @@ ("t" :> "\t")
  @@ ("r" :> "\r")

\* The place of the next quote, backslash or control character from i on,
\* or past the end of the text
NextStop(text, i) ==
  Min({ j \in i..(Len(text) + 1) :
          j > Len(text) \/ text[j] \in {Quote, "\\", "\n", "\t", "\r"} })

RECURSIVE ParseString(_, _, _)

\* The string whose characters start at i, added to s, its next quote, backslash
\* or control character being at stop
StringFrom(text, i, s, stop) ==
  IF stop > Len(text) \/ text[stop] \in {"\n", "\t", "\r"} THEN Failed
  ELSE IF text[stop] = Quote THEN Read(JString(s \o SubSeq(text, i, stop - 1)), stop + 1)
  ELSE IF stop + 1 <= Len(text) /\ text[stop + 1] \in DOMAIN Escapes
       THEN ParseString(text, stop + 2,
                        Append(s \o SubSeq(text, i, stop - 1), Escapes[text[stop + 1]]))
       ELSE Failed

\* The string whose characters start at i, added to s
ParseString(text, i, s) == StringFrom(text, i, s, NextStop(text, i))

\* The end of the run of digits that starts at i
SkipDigits(text, i) ==
  LET rest == { j \in i..Len(text) : text[j] \notin Digits }
  IN  IF rest = {} THEN Len(text) + 1 ELSE Min(rest)

\* -?(0|[1-9][0-9]*)(\.[0-9]+)?  (no response drawn holds an exponent)
ParseNumber(text, i) ==
  LET int == IF text[i] = "-" THEN i + 1 ELSE i
      frac == IF int <= Len(text) /\ text[int] = "0" THEN int + 1 ELSE SkipDigits(text, int)
      end == IF frac <= Len(text) /\ text[frac] = "." THEN SkipDigits(text, frac + 1) ELSE frac
  IN  IF frac = int \/ end = frac + 1 THEN Failed
      ELSE Read(JNumber(SubSeq(text, i, end - 1)), end)

RECURSIVE ParseValue(_, _), ParseElements(_, _, _), ParseMembers(_, _, _)
ParseValue(text, i) ==
  IF i > Len(text) THEN Failed
  ELSE CASE text[i] = Quote -> ParseString(text, i + 1, << >>)
         [] text[i] = "[" ->
              IF SkipSpace(text, i + 1) <= Len(text) /\ text[SkipSpace(text, i + 1)] = "]"
              THEN Read(JArray(<< >>), SkipSpace(text, i + 1) + 1)
              ELSE ParseElements(text, SkipSpace(text, i + 1), << >>)
         [] text[i] = "{" ->
              IF SkipSpace(text, i + 1) <= Len(text) /\ text[SkipSpace(text, i + 1)] = "}"
              THEN Read(JObject(<< >>, << >>), SkipSpace(text, i + 1) + 1)
              ELSE ParseMembers(text, SkipSpace(text, i + 1), JObject(<< >>, << >>))
         [] text[i] = "-" \/ text[i] \in Digits -> ParseNumber(text, i)
         [] StartsAt(text, Chars("true"), i) -> Read(JBoolean(Chars("true")), i + 4)
         [] StartsAt(text, Chars("false"), i) -> Read(JBoolean(Chars("false")), i + 5)
         [] StartsAt(text, Chars("null"), i) -> Read(JNull, i + 4)
         [] OTHER -> Failed

ParseElements(text, i, a) ==
  LET elem == ParseValue(text, i)
      next == SkipSpace(text, elem.i)
  IN  IF ~elem.ok \/ next > Len(text) THEN Failed
      ELSE IF text[next] = "]" THEN Read(JArray(Append(a, elem.v)), next + 1)
      ELSE IF text[next] = ","
           THEN ParseElements(text, SkipSpace(text, next + 1), Append(a, elem.v))
           ELSE Failed

ParseMembers(text, i, obj) ==
  LET name == ParseString(text, i + 1, << >>)
      colon == SkipSpace(text, name.i)
      member == ParseValue(text, SkipSpace(text, colon + 1))
      next == SkipSpace(text, member.i)
  IN  IF i > Len(text) \/ text[i] # Quote \/ ~name.ok THEN Failed
      ELSE IF colon > Len(text) \/ text[colon] # ":" \/ ~member.ok THEN Failed
      ELSE IF next > Len(text) THEN Failed
      ELSE IF text[next] = "}" THEN Read(Put(obj, name.v.s, member.v), next + 1)
      ELSE IF text[next] = ","
           THEN ParseMembers(text, SkipSpace(text, next + 1), Put(obj, name.v.s, member.v))
           ELSE Failed

\* JSON.parse(text); ok is false when it throws
JSONparse(text) ==
  LET value == ParseValue(text, SkipSpace(text, 1))
  IN  IF value.ok /\ SkipSpace(text, value.i) > Len(text) THEN value ELSE Failed

Escaped(c) ==
  IF c = Quote THEN << "\\", Quote >>
  ELSE IF c = "\\" THEN << "\\", "\\" >>
  ELSE IF c = "\n" THEN << "\\", "n" >>
  ELSE IF c = "\t" THEN << "\\", "t" >>
  ELSE IF c = "\r" THEN << "\\", "r" >>
  ELSE << c >>

Quoted(s) == << Quote >> \o Flatten([i \in 1..Len(s) |-> Escaped(s[i])]) \o << Quote >>

\* The members of an object that JSON.stringify writes
Defined(v) == SelectSeq([n \in 1..Len(v.k) |-> n], LAMBDA n : v.a[n].t # "undefined")

\* JSON.stringify (numbers are drawn in the form JSON.stringify writes them)
RECURSIVE stringify(_)
stringify(v) ==
  CASE v.t = "string" -> Quoted(v.s)
    [] v.t \in {"number", "boolean"} -> v.s
    [] v.t \in {"null", "undefined"} -> Chars("null")
    [] v.t = "array" ->
         << "[" >>
         \o Flatten([n \in 1..Len(v.a) |->
                       (IF n > 1 THEN << "," >> ELSE << >>) \o stringify(v.a[n])])
         \o << "]" >>
    [] v.t = "object" ->
         << "{" >>
         \o Flatten([n \in 1..Len(Defined(v)) |->
                       (IF n > 1 THEN << "," >> ELSE << >>) \o Quoted(v.k[Defined(v)[n]])
                       \o << ":" >> \o stringify(v.a[Defined(v)[n]])])
         \o << "}" >>

\* ------------------------------------------------- safeParseJSON (part_000)
\* prompts/taskAnalysis.ts 86-103 (part_001)
DEFAULT_BLAME_MESSAGES_popup ==
  [n \in 1..16 |-> JString(Chars(
     << "Lam di ong noi, thua may dua fresher het roi!",
        "E! Lam task di ba, may dua intern no con nhanh hon may do!",
        "Luot TikTok hoai, bao gio moi lam? Khoc khi bi PIP bay gio!",
        "Dong nghiep len senior roi, con may thi sao? Luoi chay thay!",
        "Sep nhin la biet may luoi, coi chung bay mau cuoi thang!",
        "Bao gio moi lam? ChatGPT khong lam ho may dau!",
        "Di phong van lai di, luoi kieu nay lam gi co cong ty nao nhan!",
        "Task don gian vay ma cung khong lam, toan tim co tri hoan!",
        "E, khong lam bay gio thi mai dung di lam luon di thim!",
        "Deadline qua lau roi! May la Senior Procrastinator ha?",
        "Cu luot Reddit di, roi ai do se lam task cua may, mo a?",
        "Tuong 10x dev, ai de luoi 100x. Dung day lam viec di!",
        "Tri hoan nua la tao report len sep do, lam di ong!",
        "Tui fresher no lam xong 5 task roi, may con chua bat dau!",
        "Ban apply vao vi tri dev hay chuyen gia tri hoan vay?",
        "Deadline mai roi, chua lam gi het, thuc dem code di thim!" >>[n]))]

\* What a stage of the cascade ends in: a return, a throw, or the next stage
Return(messages) == [kind |-> "return", blameMessages |-> messages]
Thrown == [kind |-> "throw", blameMessages |-> << >>]
FallThrough == [kind |-> "next", blameMessages |-> << >>]

\* part_000 981, 996, 1020, 1040
Truncated(s) == IF Len(s) > 150 THEN SubSeq(s, 1, 147) \o Chars("...") ELSE s

\* msg.length > 150 ? msg.substring(0, 147) + '...' : msg, for any msg
Clip(msg) == IF msg.t = "string" THEN JString(Truncated(msg.s)) ELSE msg
ClipThrows(msg) == msg.t = "array" /\ Len(msg.a) > 150

\* part_000 979-983
AsMessage(msg) ==
  IF msg.t = "string" THEN JString(Truncated(msg.s))
  ELSE JString(SubSeq(stringify(msg), 1, Min({100, Len(stringify(msg))})))

\* part_000 968-970
IsFieldName(msg) ==
  msg.t = "string" /\ msg.s \in { Chars("blameMessages"), Chars("blameMessages\\") }

AllFiltered_Never(filteredMessages) == FALSE

\* part_000 973
AllFiltered(filteredMessages) == Len(filteredMessages) = 0

\* part_000 959-986
Canonical(parsedJson) ==
  LET field == Get(parsedJson, "blameMessages")
      filteredMessages == SelectSeq(field.a, LAMBDA msg : ~IsFieldName(msg))
  IN  IF ~Truthy(field) THEN FallThrough
      ELSE IF field.t = "string" THEN Return(<< field >>)
      ELSE IF field.t # "array" THEN FallThrough
      ELSE IF AllFiltered(filteredMessages) THEN Return(DEFAULT_BLAME_MESSAGES_popup)
      ELSE Return([n \in 1..Len(filteredMessages) |-> AsMessage(filteredMessages[n])])

\* part_000 994-995; item is not null
Reminder(item) ==
  IF item.t = "string" THEN item
  ELSE Or(Get(item, "message"), Or(Get(item, "text"), JString(stringify(item))))

\* part_000 989-1003
TrollReminders(parsedJson) ==
  LET field == Get(parsedJson, "trollReminders")
      messages == SelectSeq([n \in 1..Len(field.a) |-> Clip(Reminder(field.a[n]))], Truthy)
  IN  IF field.t # "array" \/ Len(field.a) = 0 THEN FallThrough
      ELSE IF \E n \in 1..Len(field.a) :
                field.a[n].t = "null" \/ ClipThrows(Reminder(field.a[n]))
           THEN Thrown
      ELSE IF Len(messages) > 0 THEN Return(messages)
      ELSE FallThrough

\* part_000 1012-1017; item is not null; null: the item gives no message
Extracted(item) ==
  IF item.t = "string" THEN item
  ELSE Or(Get(item, "message"), Or(Get(item, "text"), Or(Get(item, "content"), JNull)))

\* part_000 1006-1029, from the n-th member on (members in the order written)
RECURSIVE ScanArrays(_, _)
ScanArrays(parsedJson, n) ==
  LET possibleMessages == parsedJson.a[n].a
      extractedMessages ==
        SelectSeq([m \in 1..Len(possibleMessages) |-> Clip(Extracted(possibleMessages[m]))],
                  Truthy)
  IN  IF n > Len(parsedJson.k) THEN FallThrough
      ELSE IF parsedJson.a[n].t # "array" \/ Len(possibleMessages) = 0
           THEN ScanArrays(parsedJson, n + 1)
      ELSE IF \E m \in 1..Len(possibleMessages) :
                possibleMessages[m].t = "null" \/ ClipThrows(Extracted(possibleMessages[m]))
           THEN Thrown
      ELSE IF Len(extractedMessages) > 0 THEN Return(extractedMessages)
      ELSE ScanArrays(parsedJson, n + 1)

\* part_000 954-1032
Cascade(text) ==
  LET parsedJson == JSONparse(text)
  IN  IF ~parsedJson.ok THEN Thrown
      ELSE IF Canonical(parsedJson.v).kind # "next" THEN Canonical(parsedJson.v)
      ELSE IF TrollReminders(parsedJson.v).kind # "next" THEN TrollReminders(parsedJson.v)
      ELSE ScanArrays(parsedJson.v, 1)

\* One "([^"]+)"\s* of blameMessageRegex, at position i
QuotedItem(text, i) ==
  LET close == IndexOf(text, << Quote >>, i + 1)
  IN  IF i > Len(text) \/ text[i] # Quote \/ close = 0 \/ close = i + 1
      THEN [ok |-> FALSE, s |-> << >>, i |-> 0]
      ELSE [ok |-> TRUE, s |-> SubSeq(text, i + 1, close - 1), i |-> SkipSpace(text, close + 1)]

\* The rest of blameMessageRegex after its first item: up to two more, then ]
RECURSIVE MoreItems(_, _, _)
MoreItems(text, i, found) ==
  LET item == QuotedItem(text, SkipSpace(text, i + 1))
  IN  IF i > Len(text) THEN << >>
      ELSE IF text[i] = "]" THEN found
      ELSE IF text[i] = "," /\ Len(found) < 3 /\ item.ok
           THEN MoreItems(text, item.i, Append(found, item.s))
           ELSE << >>

\* The groups of blameMessageRegex matched at position i, << >> when it does not match
BlameMatchAt(text, i) ==
  LET colon == SkipSpace(text, i + Len("\"blameMessages\""))
      bracket == SkipSpace(text, colon + 1)
      first == QuotedItem(text, SkipSpace(text, bracket + 1))
  IN  IF ~StartsAt(text, Chars("\"blameMessages\""), i) THEN << >>
      ELSE IF colon > Len(text) \/ text[colon] # ":" THEN << >>
      ELSE IF bracket > Len(text) \/ text[bracket] # "[" \/ ~first.ok THEN << >>
      ELSE MoreItems(text, first.i, << first.s >>)

\* part_000 1035-1036
blameMatch(text) ==
  LET hits == { i \in 1..Len(text) : BlameMatchAt(text, i) # << >> }
  IN  IF hits = {} THEN << >> ELSE BlameMatchAt(text, Min(hits))

\* part_000 1048-1049: the groups of text.matchAll(/"([^"]{10,150})"/g), from i on
RECURSIVE messageMatches(_, _)
messageMatches(text, i) ==
  LET open == IndexOf(text, << Quote >>, i)
      close == IndexOf(text, << Quote >>, open + 1)
  IN  IF open = 0 \/ close = 0 THEN << >>
      ELSE IF close - open - 1 \in 10..150
           THEN << SubSeq(text, open + 1, close - 1) >> \o messageMatches(text, close + 1)
           ELSE messageMatches(text, open + 1)

FirstThree(s) == SubSeq(s, 1, Min({3, Len(s)}))
Strings(texts) == [n \in 1..Len(texts) |-> JString(texts[n])]

\* part_000 913-1063: the blameMessages of the result
safeParseJSON(raw) ==
  LET unfenced == Unfenced(raw)
      sentences == SelectSeq(split(unfenced), LAMBDA s : Len(s) > 10)
      text == Repaired(unfenced)
  IN  IF /\ includes(unfenced, "blame") /\ includes(unfenced, "leetcode")
         /\ ~includes(unfenced, "{") /\ Len(sentences) > 0
      THEN [n \in 1..Min({3, Len(sentences)}) |-> JString(trim(sentences[n]) \o << "!" >>)]
      ELSE IF Cascade(text).kind = "return" THEN Cascade(text).blameMessages
      ELSE IF blameMatch(text) # << >>
           THEN [n \in 1..Len(blameMatch(text)) |-> JString(Truncated(blameMatch(text)[n]))]
      ELSE IF Len(messageMatches(text, 1)) > 0
           THEN Strings(FirstThree(messageMatches(text, 1)))
      ELSE DEFAULT_BLAME_MESSAGES_popup

\* ------------------------------------------------- parseTasks (part_000)
General == JString(Chars("general"))

\* part_000 1541-1544, 1548-1551: a detected task; undefined deadline: no deadline
DetectedTask(text, deadline) ==
  JObject(<< Chars("text"), Chars("deadline") >>, << text, deadline >>)

\* part_000 1559-1562
TaskWords ==
  { Chars("task"),
    << "c", "o-circumflex", "n", "g", " ", "v", "i", "e-circumflex-dot", "c" >>,
    << "l", "a-grave", "m" >>, Chars("deadline") }

\* part_000 1541-1544; task is not null
FromTask(task) ==
  DetectedTask(Or(Get(task, "text"), Or(Get(task, "task"), Or(Get(task, "name"),
                  Or(Get(task, "description"), JString(<< >>))))),
               Or(Get(task, "deadline"), Or(Get(task, "due"), Or(Get(task, "dueDate"),
                  Undefined))))

\* part_000 1536-1552
Detected(parsedJson) ==
  LET tasks == Get(parsedJson, "tasks")
  IN  IF Get(parsedJson, "detectedTasks").t = "array" THEN Get(parsedJson, "detectedTasks").a
      ELSE IF tasks.t = "array" THEN [n \in 1..Len(tasks.a) |-> FromTask(tasks.a[n])]
      ELSE IF Truthy(Get(parsedJson, "text")) \/ Truthy(Get(parsedJson, "task"))
           THEN << DetectedTask(
                     Or(Get(parsedJson, "text"), Or(Get(parsedJson, "task"),
                        Or(Get(parsedJson, "description"), JString(<< >>)))),
                     Or(Get(parsedJson, "deadline"), Or(Get(parsedJson, "due"),
                        Or(Get(parsedJson, "dueDate"), Undefined)))) >>
      ELSE << >>

\* part_000 1541: task.text of a null task throws
DetectedThrows(parsedJson) ==
  /\ Get(parsedJson, "detectedTasks").t # "array"
  /\ Get(parsedJson, "tasks").t = "array"
  /\ \E n \in 1..Len(Get(parsedJson, "tasks").a) : Get(parsedJson, "tasks").a[n].t = "null"

\* part_000 1556-1569
LooksLikeTask(text) == \E word \in TaskWords : IndexOf(toLowerCase(text), word, 1) # 0

TaskDetectionResult(category, detectedTasks) ==
  [category |-> category, hasDetectedTasks |-> TRUE, detectedTasks |-> detectedTasks]

\* part_000 1509-1589
parseTasks(raw) ==
  LET text == StripToBraces(Unfenced(raw))
      parsedJson == JSONparse(text)
  IN  IF parsedJson.ok /\ ~DetectedThrows(parsedJson.v)
      THEN TaskDetectionResult(
             Or(Get(parsedJson.v, "category"), General),
             IF Detected(parsedJson.v) = << >> /\ LooksLikeTask(text)
             THEN << DetectedTask(Or(Get(parsedJson.v, "message"), JString(text)), Undefined) >>
             ELSE Detected(parsedJson.v))
      ELSE IF Len(text) < 100 /\ ~includes(text, "\n\n")
           THEN TaskDetectionResult(General, << DetectedTask(JString(trim(text)), Undefined) >>)
      ELSE [category |-> General, hasDetectedTasks |-> FALSE, detectedTasks |-> << >>]

\* ------------------------------------------------- responses drawn
\* What the completion service may answer: one-member objects over the names the
\* parsers look for, their values of every kind, bare, fenced or within prose; and
\* texts that are no JSON
Elements ==
  { JString(Chars("Do it now!")), JString(Chars("Hurry up!")), JString(<< >>),
    JString(Chars("blameMessages")), JNumber(<< "5" >>), JNull,
    JString(Chars("Type ") \o Fence \o Chars(" to open a code block")),
    JObject(<< Chars("message") >>, << JString(Chars("Finish the report today")) >>) }

RECURSIVE Lists(_)
Lists(n) ==
  IF n = 0 THEN { << >> }
  ELSE Lists(n - 1) \cup { Append(a, e) : a \in Lists(n - 1), e \in Elements }

FieldValues ==
  { JArray(a) : a \in Lists(MaxItems) }
  \cup { JString(Chars("Do it now!")), JString(<< >>), JNumber(<< "5" >>), JNumber(<< "0" >>),
         JNull, JBoolean(Chars("true")), JObject(<< >>, << >>) }

FieldNames ==
  { Chars("blameMessages"), Chars("trollReminders"), Chars("messages"), Chars("category"),
    Chars("detectedTasks"), Chars("tasks"), Chars("text") }

\* An empty detectedTasks next to a tasks field holding one task
EmptyCanonicalTasks ==
  JObject(<< Chars("detectedTasks"), Chars("tasks") >>,
          << JArray(<< >>),
             JArray(<< JObject(<< Chars("text") >>,
                               << JString(Chars("Finish the report today")) >>) >>) >>)

Objects ==
  { JObject(<< k >>, << v >>) : k \in FieldNames, v \in FieldValues }
  \cup { JObject(<< Chars("blameMessages"), Chars("trollReminders") >>,
                 << JArray(<< >>), JArray(<< JString(Chars("Do it now!")) >>) >>),
         JObject(<< Chars("category"), Chars("detectedTasks") >>,
                 << JString(Chars("work")), JArray(<< >>) >>),
         EmptyCanonicalTasks }

\* A text in a fenced code block, with and without the json tag
Fenced(text) ==
  { Fence \o Chars("json\n") \o text \o Chars("\n") \o Fence,
    Fence \o Chars("\n") \o text \o Chars("\n") \o Fence }

Wrapped(text) ==
  { text, Chars("Sure! Here it is: ") \o text \o Chars(" Hope that helps.") }
  \cup Fenced(text)

\* A reminder of more than 150 characters in one sentence
LongReminder ==
  "Stop the blame game and open leetcode right now because the deadline of this "
  \o "task passed hours ago and everybody else on the team has already solved three "
  \o "problems today while you were scrolling"

Prose ==
  { "", "{", "}", "{}", "[]", "null",
    "Just do your leetcode task already, come on!",
    "No more blame games. Open leetcode and solve one problem now! You promised.",
    "He said \"please do it now!\" and then \"finish it today\".",
    "{\"blameMessages\":[\"Do it now!\",\"Hurry up!\"]}",
    "{\"blameMessages\": [\"Do it now!\", \"Hurry up!\",]}",
    "{\"blameMessages\": [\"Do it now!\" \"Hurry up!\"]}",
    "{\"blameMessages\": [\"Stop \"resting\" now\"]}",
    "{\"blameMessages\": [\"Do it now!\", \"Hur",
    "{\"blameMessages\": \"Do it now!\"",
    "{\"category\": 5, \"detectedTasks\": []}",
    "{\"tasks\": [{\"task\": \"write the report\", \"due\": \"tomorrow\"}]}",
    "{\"tasks\": [null]}",
    "buy milk",
    "first paragraph\n\nsecond paragraph",
    "{\"category\": \"work\",\n\n\"detectedTasks\": [{\"text\": \"write the report\"}",
    LongReminder }

\* Every text of up to MaxLen characters over the characters the parsers single out
Alphabet == { "{", "}", "[", "]", Quote, ":", ",", " ", "a", "5", "\\" }

RECURSIVE Texts(_)
Texts(n) ==
  IF n = 0 THEN { << >> }
  ELSE Texts(n - 1) \cup { Append(text, c) : text \in Texts(n - 1), c \in Alphabet }

\* The built-in default set as a response: { "blameMessages": DEFAULT_BLAME_MESSAGES }
DefaultsObject == JObject(<< Chars("blameMessages") >>, << JArray(DEFAULT_BLAME_MESSAGES_popup) >>)

Responses ==
  UNION { Wrapped(stringify(obj)) : obj \in Objects } \cup { Chars(text) : text \in Prose }
  \cup { stringify(DefaultsObject) }
  \cup Texts(MaxLen)
  \cup { Fence, Fence \o Fence, Fence \o Chars("json") \o Fence }

NoResponse == [to |-> "nobody", text |-> << >>]
NoBlameResult == [returned |-> FALSE, blameMessages |-> << >>]
NoTaskResult ==
  [returned |-> FALSE, category |-> Undefined, hasDetectedTasks |-> FALSE,
   detectedTasks |-> << >>]

\* ------------------------------------- helpers (service worker, background.ts)
Idle == [pc |-> "idle", todos |-> << >>, aiConfig |-> NoConfig, now |-> 0,
         i |-> 0, blameMessage |-> "", failed |-> FALSE]

Range(s) == { s[k] : k \in 1..Len(s) }

\* background.ts 453-466
ExpiryTime(todo, t) ==
  IF todo.dueDate # 0 THEN todo.dueDate
  ELSE (IF todo.created # 0 THEN todo.created ELSE t - missingCreatedOffset)
       + timeboxDuration

\* background.ts 469
IsExpired(todo, t) == t >= ExpiryTime(todo, t)

NeedsCheck_NoExpiredSkip(todo) == ~todo.completed

\* background.ts 443-451: completed and already expired tasks are skipped
NeedsCheck(todo) == ~todo.completed /\ ~todo.timeExpired

\* The next task of the for loop, from index i on, that the loop stops at (0: none)
NextExpired(ts, i, t) ==
  LET hits == { j \in i..Len(ts) : NeedsCheck(ts[j]) /\ IsExpired(ts[j], t) }
  IN  IF hits = {} THEN 0 ELSE CHOOSE j \in hits : \A k \in hits : j <= k

\* background.ts 477
MarkExpired(ts, j) == [ts EXCEPT ![j].timeExpired = TRUE]

WriteBack_Dropped(stored, local) == stored

\* background.ts 478, 509: chrome.storage.local.set({ todos }) writes the snapshot
WriteBack(stored, local) == local

\* background.ts 482
TemplateMessage(todo) == "Het gio cho cong viec: " \o todo.text

\* background.ts 498-500
IsUsable(m) == Len(m) > 10
ValidMessages(batch) == SelectSeq(batch, IsUsable)

\* The string of a text
RECURSIVE Text(_)
Text(chars) == IF chars = << >> THEN "" ELSE Head(chars) \o Text(Tail(chars))

\* content.split('\n')
RECURSIVE Lines(_)
Lines(content) ==
  LET breaks == { j \in 1..Len(content) : content[j] = "\n" }
  IN  IF breaks = {} THEN << content >>
      ELSE << SubSeq(content, 1, Min(breaks) - 1) >>
           \o Lines(SubSeq(content, Min(breaks) + 1, Len(content)))

\* .map(line => line.trim())
TrimmedEach(lines) == [n \in 1..Len(lines) |-> trim(lines[n])]

TrimmedLines(content) == SelectSeq(TrimmedEach(Lines(content)), LAMBDA line : Len(line) > 0)

\* background.ts 157: content.match(/\{[\s\S]*?\}/), << >> when there is no match
jsonMatch(content) ==
  LET open == IndexOf(content, << "{" >>, 1)
      close == IF open = 0 THEN 0 ELSE IndexOf(content, << "}" >>, open + 1)
  IN  IF close = 0 THEN << >> ELSE SubSeq(content, open, close)

\* background.ts 158-175: the validMessages of the object matched, << >> if none
\* background.ts 165-167: the messages kept, trimmed
TrimmedStrings(items) == [n \in 1..Len(items) |-> trim(items[n].s)]

\* background.ts 160-167: the strings of blameMessages that are not blank
ValidStrings(field) ==
  IF field.t # "array" THEN << >>
  ELSE TrimmedStrings(SelectSeq(field.a, LAMBDA msg : msg.t = "string" /\ trim(msg.s) # << >>))

\* background.ts 158-175: a throw of JSON.parse is caught at 172
ParsedBlameMessages(jsonResponse) ==
  IF ~jsonResponse.ok THEN << >> ELSE ValidStrings(Get(jsonResponse.v, "blameMessages"))

JsonMessages(content) ==
  IF jsonMatch(content) = << >> THEN << >>
  ELSE ParsedBlameMessages(JSONparse(jsonMatch(content)))

\* The character U+2022 (a string of the module cannot hold it)
Bullet == "bullet"

\* /^\d+[\.\)]/: the length of the match, 0 when the line does not match
NumberedPrefix(line) ==
  LET end == SkipDigits(line, 1)
  IN  IF end > 1 /\ end <= Len(line) /\ line[end] \in {".", ")"} THEN end ELSE 0

\* background.ts 178-189: the lines of a bulleted or numbered list, cleaned
\* background.ts 184-186: the bullet or the number is cut off
Unbulleted(lines) ==
  [n \in 1..Len(lines) |->
     trim(SubSeq(lines[n],
                 IF lines[n][1] \in {"-", Bullet} THEN 2 ELSE NumberedPrefix(lines[n]) + 1,
                 Len(lines[n])))]

BulletLines(content) ==
  Unbulleted(SelectSeq(TrimmedLines(content),
                       LAMBDA line : line[1] \in {"-", Bullet} \/ NumberedPrefix(line) > 0))

\* background.ts 192-205
PlainLines(content) ==
  SelectSeq(TrimmedLines(content),
            LAMBDA line : /\ ~includes(line, "{")
                          /\ ~includes(line, "}")
                          /\ ~includes(line, "blameMessages")
                          /\ Len(line) < 150)

\* background.ts 155-205: the messages read from the content, << >> when the
\* function goes on to line 211
\* background.ts 168-170, 187-189, 202-204: the first of the three that found messages
FirstFound(json, bullets, plain) ==
  IF json # << >> THEN json ELSE IF bullets # << >> THEN bullets ELSE plain

ContentMessages(content) ==
  FirstFound(JsonMessages(content), BulletLines(content), PlainLines(content))

\* What the completion service can answer to the fetch of generateWithOpenRouter
\* (background.ts 110): the fetch is rejected, the status is not a success, the
\* body has no choices[0].message, or it has one with this content
Contents ==
  { Chars(text) : text \in
      { "{\"blameMessages\":[\"Lam leetcode di ba!\",\"Nop thue di thim oi!\"]}",
        "{\"blameMessages\":[\"Lam leetcode di ba!\"]}",
        "{\"blameMessages\":[\"Lam di!\"]}",
        "{\"blameMessages\":[]}",
        "- Lam leetcode di ba!\n- Nop thue di thim oi!",
        "Lam leetcode di ba!",
        "" } }

AIAnswers ==
  { [fetch |-> "rejected", ok |-> FALSE, message |-> FALSE, content |-> << >>],
    [fetch |-> "resolved", ok |-> FALSE, message |-> FALSE, content |-> << >>],
    [fetch |-> "resolved", ok |-> TRUE, message |-> FALSE, content |-> << >>] }
  \cup { [fetch |-> "resolved", ok |-> TRUE, message |-> TRUE, content |-> content] :
           content \in Contents }

\* background.ts 110-150: the content the function goes on with, or the throw
Answered(answer) == answer.fetch = "resolved" /\ answer.ok

\* background.ts 207-216 (and 95-100, 264-269): the messages read, or the default
\* set when the request has failed or nothing was read
MessagesOrDefault(answered, messages) ==
  IF ~answered \/ messages = << >> THEN DEFAULT_BLAME_MESSAGES
  ELSE [n \in 1..Len(messages) |-> Text(messages[n])]

\* background.ts 104-217
generateWithOpenRouter(answer) ==
  MessagesOrDefault(Answered(answer), ContentMessages(trim(answer.content)))

\* The request failed (background.ts 130, 213), the body had not the expected
\* envelope or no message could be read from the content (211), or none of the
\* messages read is usable (background.ts 498-500, 513)
FailedWith(answered, messages, blameMessages) ==
  ~answered \/ messages = << >> \/ ValidMessages(blameMessages) = << >>

PipelineFailed(answer) ==
  FailedWith(Answered(answer) /\ answer.message, ContentMessages(trim(answer.content)),
             generateWithOpenRouter(answer))

\* background.ts 492-500: what generateBlameMessage resolves to for each answer,
\* as checkTasks reads it: the messages longer than 10 characters
AIResults ==
  { [valid |-> ValidMessages(generateWithOpenRouter(answer)),
     failed |-> PipelineFailed(answer)] : answer \in AIAnswers }

\* background.ts 85-86: parsed.blameMessages when it is an array, its messages
\* being strings
FieldMessages(field) ==
  IF field.t # "array" THEN << >> ELSE [n \in 1..Len(field.a) |-> field.a[n].s]

\* background.ts 78-93, 247-262: the content of the answer is parsed as it
\* stands; lines are what remains when it does not parse
MessagesOf(parsed, content) ==
  IF parsed.ok THEN FieldMessages(Get(parsed.v, "blameMessages"))
  ELSE SelectSeq(Lines(content), LAMBDA line : Len(trim(line)) > 0)

\* background.ts 80-84: JSON.parse of the trimmed content
ParsedMessages(content) == MessagesOf(JSONparse(content), content)

\* background.ts 55-101, and 220-270 (generateWithGemini) with candidates for
\* choices: what the function returns when the body had the expected envelope
\* (answered) and these messages were read from its content
generateWithOpenAI(answered, parsed) == MessagesOrDefault(answered, parsed)

\* background.ts 492-500: the result as checkTasks reads it
DirectResult(answered, parsed, blameMessages) ==
  [valid |-> ValidMessages(blameMessages),
   failed |-> FailedWith(answered, parsed, blameMessages)]

\* The result for an answer whose content gave these messages
DirectAnswer(answered, parsed) ==
  DirectResult(answered, parsed, generateWithOpenAI(answered, parsed))

\* What generateBlameMessage resolves to for each answer when the provider is
\* openai or gemini
DirectResults ==
  { DirectAnswer(Answered(answer) /\ answer.message, ParsedMessages(trim(answer.content))) :
      answer \in AIAnswers }

\* background.ts 302-311: the answers generateBlameMessage may resolve to
ResultsOf(provider) == IF provider = "openrouter" THEN AIResults ELSE DirectResults

\* background.ts 309-310: no case of the switch matches, the default set is
\* returned and no request is made
NoRequestResult == [valid |-> DEFAULT_BLAME_MESSAGES, failed |-> TRUE]

\* background.ts 414-423
EffectiveConfig(c) ==
  IF ~c.present THEN [present |-> TRUE, hasEnabled |-> TRUE, enabled |-> TRUE,
                      apiKey |-> "", provider |-> "openrouter"]
  ELSE IF c.provider = "" THEN [c EXCEPT !.provider = "openrouter"]
  ELSE c

\* The request is made whenever AI is enabled, with or without a key
AIEnabled_KeyIgnored(c) == c.enabled

\* background.ts 485
AIEnabled(c) == c.enabled /\ c.apiKey # ""

HasTask(ts, id) == \E k \in 1..Len(ts) : ts[k].id = id
TaskOf(ts, id) == ts[CHOOSE k \in 1..Len(ts) : ts[k].id = id]
EntriesFor(q, id) == Cardinality({ k \in 1..Len(q) : q[k].taskId = id })

Bump(f, id) == IF id \in DOMAIN f THEN [f EXCEPT ![id] = @ + 1] ELSE f

\* part_000 773, 1351: the two requests the popup makes of the completion service
RequestKinds == {"generateBlameMessage", "detectTasksInMessage"}

\* No request in progress, none has returned
NoRequest == [pc |-> "idle", returned |-> "nothing", blameMessages |-> << >>]

\* chrome.storage.local holds no showNotification
NoNotification == [message |-> "", taskId |-> NoTask]

\* background.ts 347-358: the keys pendingBlameMessages and showNotification are first
\* written by the same callback, so the one exists in storage when the other does
PendingStored == showNotification # NoNotification

\* The state when the extension has been installed, the storage holding one of
\* configs and the host being one of hosts
InitWith(configs, hosts, providers) ==
  /\ now = StartTime
  /\ todos = << >>
  /\ pendingBlameMessages = << >>
  /\ showNotification = NoNotification
  /\ aiConfig \in configs
  /\ badge = FALSE
  /\ alerted = FALSE
  /\ notifications = {}
  /\ host \in hosts
  /\ inv = [p \in Invocations |-> Idle]
  /\ cbq = << >>
  /\ nextId = 1
  /\ starts = 0
  /\ msgs = 0
  /\ nExpired = [id \in TaskIds |-> 0]
  /\ nRequest = [id \in TaskIds |-> 0]
  /\ nPush = [id \in TaskIds |-> 0]
  /\ nDispatch = 0
  /\ handled = {}
  /\ quiet = {}
  /\ doneEarly = {}
  /\ doneNow = 0
  /\ response = NoResponse
  /\ blameResult = NoBlameResult
  /\ taskResult = NoTaskResult
  /\ appTodos = << >>
  /\ localStorageTodos = << >>
  /\ appAI = FALSE
  /\ appProvider \in providers
  /\ requests = [kind \in RequestKinds |-> NoRequest]
  /\ chat = [n |-> 1, last |-> "bot"]
  /\ sentAt = 0

\* The popup's aiConfig names OpenRouter, the first provider of its settings panel
\* (part_000 1980-2015)
Init == InitWith(Configs, Hosts, {"openrouter"})

\* ------------------------------------------------- the popup and the clock
\* Storage completions arrive well within one clock step
Advance ==
  /\ now < StartTime + MaxClockSteps * ClockStep
  /\ cbq = << >>
  /\ now' = now + ClockStep
  /\ UNCHANGED << store, alerts, nextId, starts, msgs, counts, marks, inv, cbq >>
  /\ UNCHANGED popup

\* A task is created (handleSendMessage 'add', detectSimpleTask, detectTasksInMessage)
TaskText(id) == "task" \o ToString(id)

NewTodo(id, t, due) ==
  [id |-> id, text |-> TaskText(id), created |-> t, dueDate |-> due,
   completed |-> FALSE, timeExpired |-> FALSE, remainingTime |-> NoTime,
   customBlameMessages |-> << >>]

AddTask ==
  /\ nextId <= MaxTasks
  /\ \E due \in {0, now + ClockStep} :
       todos' = Append(todos, NewTodo(nextId, now, due))
  /\ nextId' = nextId + 1
  /\ UNCHANGED << pendingBlameMessages, showNotification, aiConfig, alerts, now,
                  starts, msgs, counts, marks, inv, cbq >>
  /\ UNCHANGED popup

\* A task written without created and without dueDate (part_000 28: created is
\* optional in the type Todo)
AddTaskWithoutCreated ==
  /\ nextId <= MaxTasks
  /\ todos' = Append(todos, NewTodo(nextId, 0, 0))
  /\ nextId' = nextId + 1
  /\ UNCHANGED << pendingBlameMessages, showNotification, aiConfig, alerts, now,
                  starts, msgs, counts, marks, inv, cbq >>
  /\ UNCHANGED popup

\* handleTaskCompletion
CompleteTask(k) ==
  /\ k \in 1..Len(todos)
  /\ ~todos[k].completed
  /\ todos' = [todos EXCEPT ![k].completed = TRUE]
  /\ doneEarly' = IF now < ExpiryTime(todos[k], now) /\ ~todos[k].timeExpired
                  THEN doneEarly \cup { todos[k].id } ELSE doneEarly
  /\ UNCHANGED << pendingBlameMessages, showNotification, aiConfig, alerts, world,
                  counts, handled, quiet, doneNow, inv, cbq >>
  /\ UNCHANGED popup

\* handleSendMessage 'delete N'
DeleteTask(k) ==
  /\ k \in 1..Len(todos)
  /\ todos' = SubSeq(todos, 1, k - 1) \o SubSeq(todos, k + 1, Len(todos))
  /\ UNCHANGED << pendingBlameMessages, showNotification, aiConfig, alerts, world,
                  counts, marks, inv, cbq >>
  /\ UNCHANGED popup

\* -------------------------------------------- pushNotificationImmediately
\* background.ts 370-396: the notification created, if any
Created(taskId, outcome) ==
  IF outcome = "created" THEN { << taskId, FALSE >> }
  ELSE IF outcome = "retried" THEN { << taskId, TRUE >> }
  ELSE {}

\* background.ts 340: the get is issued, its callback waits in cbq
PushEntry(message, taskId, failed) ==
  [kind |-> "push", p |-> 0, stored |-> PendingStored, data |-> pendingBlameMessages,
   message |-> message, taskId |-> taskId, failed |-> failed]

InvEntry(p) ==
  [kind |-> "inv", p |-> p, stored |-> FALSE, data |-> << >>, message |-> "",
   taskId |-> NoTask, failed |-> FALSE]

\* background.ts 340: the get of a dispatch is queued, unless the call of line 323
\* or of line 340 has thrown
Pushed(q, message, taskId, failed) ==
  IF host \in {"badgeThrows", "storageThrows"} THEN q
  ELSE Append(q, PushEntry(message, taskId, failed))

\* The badge keeps the text it has
setBadgeText_Ignored(text) == UNCHANGED badge

\* background.ts 323, 609: chrome.action.setBadgeText({ text })
setBadgeText(text) == badge' = (text = "!!")

\* background.ts 319-337, 361-399: the synchronous part of a dispatch; a throw of
\* line 323 or 340 ends the function, a throw of line 370 is caught at 397
Dispatch(message, taskId, byTick) ==
  /\ IF host = "badgeThrows" THEN UNCHANGED badge ELSE setBadgeText("!!")
  /\ alerted' = TRUE
  /\ notifications' = notifications \cup Created(taskId, host)
  /\ nDispatch' = nDispatch + 1
  /\ nPush' = IF byTick THEN Bump(nPush, taskId) ELSE nPush
  /\ quiet' = quiet \ { taskId }
  /\ UNCHANGED host

\* background.ts 340-359: the callback of the get
PushStored ==
  /\ cbq # << >>
  /\ Head(cbq).kind = "push"
  /\ pendingBlameMessages' =
       Append(Head(cbq).data, [message |-> Head(cbq).message, taskId |-> Head(cbq).taskId])
  /\ showNotification' = [message |-> Head(cbq).message, taskId |-> Head(cbq).taskId]
  /\ cbq' = Tail(cbq)
  /\ UNCHANGED << todos, aiConfig, alerts, world, counts, marks, inv >>
  /\ UNCHANGED popup

\* ------------------------------------------------------------ checkTasks
\* background.ts 478: whether the write of the flag is made or rejected (the write
\* of line 509 is taken to be made)
SetOutcomes == IF host = "setRejects" THEN BOOLEAN ELSE {TRUE}

\* background.ts 439-479: the for loop from index i up to its next await
ContinueLoop(p, ts, cfg, t, i, q) ==
  LET j == NextExpired(ts, i, t) IN
  IF j = 0
  THEN /\ inv' = [inv EXCEPT ![p] = Idle]
       /\ cbq' = q
       /\ doneNow' = t
       /\ UNCHANGED << todos, nExpired >>
  ELSE /\ \E written \in SetOutcomes :
            /\ inv' = [inv EXCEPT ![p] = [pc |-> IF written THEN "set1" ELSE "rejected",
                                          todos |-> MarkExpired(ts, j),
                                          aiConfig |-> cfg, now |-> t, i |-> j,
                                          blameMessage |-> "", failed |-> FALSE]]
            /\ todos' = IF written THEN WriteBack(todos, MarkExpired(ts, j)) ELSE todos
            /\ nExpired' = IF written THEN Bump(nExpired, ts[j].id) ELSE nExpired
       /\ cbq' = Append(q, InvEntry(p))
       /\ UNCHANGED doneNow

\* The error is thrown out of the loop to the catch of line 533
AfterTaskError_EndsTick(p, ts, cfg, t, i, q) ==
  /\ inv' = [inv EXCEPT ![p] = Idle]
  /\ cbq' = q
  /\ doneNow' = t
  /\ UNCHANGED << todos, nExpired >>

\* background.ts 439-440, 529-531: an error while the task at index i is processed
\* is caught inside the loop, which goes on with the next task
AfterTaskError(p, ts, cfg, t, i, q) == ContinueLoop(p, ts, cfg, t, i + 1, q)

\* background.ts 525-527 and on to the next task
\* (failed: the reminder pipeline of the task had failed)
DispatchAndContinue(p, message, failed, q) ==
  /\ Dispatch(message, inv[p].todos[inv[p].i].id, TRUE)
  /\ IF host = "badgeThrows"
     THEN AfterTaskError(p, inv[p].todos, inv[p].aiConfig, inv[p].now, inv[p].i, q)
     ELSE ContinueLoop(p, inv[p].todos, inv[p].aiConfig, inv[p].now, inv[p].i + 1,
                       Pushed(q, message, inv[p].todos[inv[p].i].id, failed))
  /\ UNCHANGED << pendingBlameMessages, showNotification, aiConfig, world, nRequest,
                  handled, doneEarly >>

FreeSlot == CHOOSE p \in Invocations :
              inv[p].pc = "idle" /\ \A r \in Invocations : inv[r].pc = "idle" => p <= r

\* background.ts 403-408: checkTasks is called and issues its get; a throw of the
\* get is caught at 533
StartCheckTasks(p, running, q) ==
  /\ starts < MaxStarts
  /\ starts' = starts + 1
  /\ IF host = "storageThrows"
     THEN inv' = running /\ cbq' = q
     ELSE /\ inv' = [running EXCEPT
                      ![p] = [pc |-> "get", todos |-> todos, aiConfig |-> aiConfig,
                              now |-> 0, i |-> 0, blameMessage |-> "", failed |-> FALSE]]
          /\ cbq' = Append(q, InvEntry(p))

\* background.ts 597-601
OnAlarm ==
  /\ \E p \in Invocations : inv[p].pc = "idle"
  /\ StartCheckTasks(FreeSlot, inv, cbq)
  /\ UNCHANGED << store, alerts, now, nextId, msgs, counts, marks >>
  /\ UNCHANGED popup

\* background.ts 604-615; a throw of line 609 ends the listener
OnConnect ==
  /\ \E p \in Invocations : inv[p].pc = "idle"
  /\ host # "badgeThrows"
  /\ setBadgeText("")
  /\ alerted' = FALSE
  /\ StartCheckTasks(FreeSlot, inv, cbq)
  /\ UNCHANGED << store, notifications, host, now, nextId, msgs, counts, marks >>
  /\ UNCHANGED popup

\* background.ts 566-574: the stored aiConfig lacks what the check fills in
NeedsUpdate(c) == ~c.present \/ c.provider \in {"", "openai"} \/ ~c.hasEnabled

\* background.ts 562-579: the aiConfig that checkAndUpdateAISettings writes
UpdatedSettings(c) ==
  [present |-> TRUE, hasEnabled |-> TRUE,
   enabled |-> IF c.hasEnabled THEN c.enabled ELSE TRUE,
   apiKey |-> c.apiKey,
   provider |-> IF c.provider \in {"", "openai"} THEN "openrouter" ELSE c.provider]

\* The service worker is stopped and started again: what was in progress is gone,
\* the top-level code runs (background.ts 589 checkAndUpdateAISettings, 657
\* checkTasks, which has issued its get before the settings are written)
Restart ==
  /\ StartCheckTasks(1, [p \in Invocations |-> Idle], << >>)
  /\ aiConfig' = IF host # "storageThrows" /\ NeedsUpdate(aiConfig)
                  THEN UpdatedSettings(aiConfig) ELSE aiConfig
  /\ UNCHANGED << todos, pendingBlameMessages, showNotification, alerts, now, nextId,
                  msgs, counts, marks >>
  /\ UNCHANGED popup

Delivered(p, pc) ==
  /\ cbq # << >>
  /\ Head(cbq).kind = "inv"
  /\ Head(cbq).p = p
  /\ inv[p].pc = pc

\* background.ts 408-436: the get resolves
GetResolved(p) ==
  /\ Delivered(p, "get")
  /\ IF Len(inv[p].todos) = 0
     THEN /\ inv' = [inv EXCEPT ![p] = Idle]
          /\ cbq' = Tail(cbq)
          /\ UNCHANGED << todos, nExpired, doneNow >>
     ELSE ContinueLoop(p, inv[p].todos, EffectiveConfig(inv[p].aiConfig), now, 1, Tail(cbq))
  /\ UNCHANGED << pendingBlameMessages, showNotification, aiConfig, alerts, world,
                  nRequest, nPush, nDispatch, handled, quiet, doneEarly >>
  /\ UNCHANGED popup

\* background.ts 302-311: the provider has a case in the switch
IssuesRequest(provider) == provider \in RequestProviders

\* background.ts 494-520: checkTasks has the result of generateBlameMessage;
\* template is the message it had prepared
BlameMessagesReturned(p, template, result, q) ==
  IF result.valid = << >>
  THEN DispatchAndContinue(p, template, result.failed, q)
  ELSE \E m \in Range(result.valid) :
         IF Len(result.valid) > 1
         THEN /\ inv' = [inv EXCEPT
                          ![p].pc = "set2",
                          ![p].blameMessage = m,
                          ![p].failed = result.failed,
                          ![p].todos[inv[p].i].customBlameMessages = result.valid]
              /\ todos' = WriteBack(todos, inv'[p].todos)
              /\ cbq' = Append(q, InvEntry(p))
              /\ UNCHANGED << pendingBlameMessages, showNotification, aiConfig,
                              alerts, world, counts, marks >>
         ELSE DispatchAndContinue(p, m, result.failed, q)

\* background.ts 478-492: the write of the flag has completed, or has been
\* rejected (529-531)
MarkResolved(p) ==
  /\ Delivered(p, "set1") \/ Delivered(p, "rejected")
  /\ IF inv[p].pc = "rejected"
     THEN /\ AfterTaskError(p, inv[p].todos, inv[p].aiConfig, inv[p].now, inv[p].i, Tail(cbq))
          /\ UNCHANGED << pendingBlameMessages, showNotification, aiConfig, alerts, world,
                          nRequest, nPush, nDispatch, handled, quiet, doneEarly >>
     ELSE IF AIEnabled(inv[p].aiConfig)
     THEN IF IssuesRequest(inv[p].aiConfig.provider)
          THEN /\ inv' = [inv EXCEPT
                           ![p].pc = "ai",
                           ![p].blameMessage = TemplateMessage(inv[p].todos[inv[p].i])]
               /\ nRequest' = Bump(nRequest, inv[p].todos[inv[p].i].id)
               /\ cbq' = Tail(cbq)
               /\ UNCHANGED << store, alerts, world, nExpired, nPush, nDispatch, marks >>
          ELSE BlameMessagesReturned(p, TemplateMessage(inv[p].todos[inv[p].i]),
                                     NoRequestResult, Tail(cbq))
     ELSE DispatchAndContinue(p, TemplateMessage(inv[p].todos[inv[p].i]), FALSE, Tail(cbq))
  /\ UNCHANGED popup

\* background.ts 492-520: generateBlameMessage resolves
AIRespond(p) ==
  /\ inv[p].pc = "ai"
  /\ \E result \in ResultsOf(inv[p].aiConfig.provider) :
       BlameMessagesReturned(p, inv[p].blameMessage, result, cbq)
  /\ UNCHANGED popup

\* background.ts 509-527: the write of customBlameMessages has completed
SaveResolved(p) ==
  /\ Delivered(p, "set2")
  /\ DispatchAndContinue(p, inv[p].blameMessage, inv[p].failed, Tail(cbq))
  /\ UNCHANGED popup

\* ------------------------------------------------------ runtime messages
\* background.ts 619-630
TestNotification ==
  /\ msgs < MaxMsgs
  /\ msgs' = msgs + 1
  /\ \E taskId \in 0..(nextId - 1) :
       /\ Dispatch("This is a test notification!", taskId, FALSE)
       /\ cbq' = Pushed(cbq, "This is a test notification!", taskId, FALSE)
  /\ UNCHANGED << store, now, nextId, starts, nExpired, nRequest, handled, doneEarly,
                  doneNow, inv >>
  /\ UNCHANGED popup

\* background.ts 633-640, 651: the popup reports a completed task; a throw of
\* line 636 or 641 ends the listener
TaskCompleted(id) ==
  /\ msgs < MaxMsgs
  /\ msgs' = msgs + 1
  /\ HasTask(todos, id)
  /\ TaskOf(todos, id).completed
  /\ notifications' = notifications \ { << id, FALSE >> }
  /\ handled' = handled \cup { id }
  /\ cbq' = IF host \in {"createThrows", "storageThrows"} THEN cbq
             ELSE Append(cbq, [kind |-> "done", p |-> 0, stored |-> PendingStored,
                               data |-> pendingBlameMessages, message |-> "",
                               taskId |-> id, failed |-> FALSE])
  /\ UNCHANGED << store, badge, alerted, host, now, nextId, starts, counts, quiet, doneEarly,
                  doneNow, inv >>
  /\ UNCHANGED popup

\* background.ts 641-649: the callback of the handler's get
CompletedStored ==
  /\ cbq # << >>
  /\ Head(cbq).kind = "done"
  /\ pendingBlameMessages' =
       IF Head(cbq).stored
       THEN SelectSeq(Head(cbq).data, LAMBDA e : e.taskId # Head(cbq).taskId)
       ELSE pendingBlameMessages
  /\ quiet' = quiet \cup { Head(cbq).taskId }
  /\ cbq' = Tail(cbq)
  /\ UNCHANGED << todos, showNotification, aiConfig, alerts, world, counts, handled,
                  doneEarly, doneNow, inv >>
  /\ UNCHANGED popup

\* ------------------------------------------------- the popup's requests
\* part_000 872-890, 1446-1456: the completion service answers a request of the popup
Respond ==
  /\ response = NoResponse
  /\ \E to \in {"generateBlameMessage", "detectTasksInMessage"}, text \in Responses :
       response' = [to |-> to, text |-> text]
  /\ UNCHANGED << service, blameResult, taskResult, app >>

\* part_000 881, 885, 889: result = safeParseJSON(text)
ParseBlameMessages ==
  /\ response.to = "generateBlameMessage"
  /\ ~blameResult.returned
  /\ blameResult' = [returned |-> TRUE, blameMessages |-> safeParseJSON(response.text)]
  /\ UNCHANGED << service, response, taskResult, app >>

\* part_000 1456: result = parseTasks(rawText)
ParseTaskDetection ==
  /\ response.to = "detectTasksInMessage"
  /\ ~taskResult.returned
  /\ taskResult' = [returned |-> TRUE] @@ parseTasks(response.text)
  /\ UNCHANGED << service, response, blameResult, app >>

\* ------------------------------------------------- the popup's task list
\* The popup keeps its list in the React state of App and in localStorage
\* (part_000 718-729, 1130-1139).  The category and deadline of a task play no
\* part in what follows and are left out.
\* part_000 1213-1219, 1463-1469, 1802-1808: id is Date.now().toString()
AppTodo(t, text) ==
  [id |-> ToString(t), text |-> text, created |-> t, completed |-> FALSE,
   timeExpired |-> FALSE, remainingTime |-> NoTime]

\* part_000 1133: an empty list is not written
DropsEmptyList(ts) == Len(ts) = 0

\* part_000 1130-1139: the effect that runs after todos has changed
setTodos(ts) ==
  /\ appTodos' = ts
  /\ localStorageTodos' = IF DropsEmptyList(ts) THEN localStorageTodos ELSE ts

\* The chat (part_000 1044-1127, 1142-1176): how many messages it shows, counted
\* up to MaxMessages, and what the last one is: the user's ("user"), the card of
\* a task ("todo"), the reply that no such task was found ("notFound") or
\* another message of the bot ("bot").  The 'processing' message of 1302-1318 is
\* taken away again by the same handler and is not counted.
\* setMessages(prev => [...prev, m]) for each m of kinds, in this order
Said(kinds) ==
  [n |-> Min({MaxMessages, chat.n + Len(kinds)}), last |-> kinds[Len(kinds)]]

\* The user sends one message per millisecond at most
MaySend == now > sentAt

\* What the user types into the chat
AddInputs == { Chars("add buy milk"), Chars("add   "), Chars("mua sua") }
DeleteInputs ==
  { Chars("delete 1"), Chars("delete 2"), Chars("delete 3"), Chars("delete 0"),
    Chars("delete abc"), Chars("delete 1abc"), Chars("delete  1"), Chars("delete -1") }

\* part_000 1791: the verbs of detectSimpleTask that are written without
\* diacritics
ActionVerbs == { Chars("mua"), Chars("xem") }

\* part_000 1794-1797: message starts with one of the verbs and a space
StartsWithVerb(message) ==
  \E verb \in ActionVerbs : StartsAt(toLowerCase(trim(message)), Append(verb, " "), 1)

\* part_000 1210-1211 ('add ...': inputValue.substring(4).trim()) and 1798
\* (detectSimpleTask: message.trim())
NewTaskText(inputValue) ==
  IF StartsAt(toLowerCase(inputValue), Chars("add "), 1)
  THEN Text(trim(SubSeq(inputValue, 5, Len(inputValue))))
  ELSE Text(trim(inputValue))

\* part_000 1194, 1210, 1293-1296: the inputs that make a task, with its text
AddsTask(inputValue) ==
  /\ Len(trim(inputValue)) > 0
  /\ StartsAt(toLowerCase(inputValue), Chars("add "), 1) \/ StartsWithVerb(inputValue)

NewTaskTexts == [inputValue \in { i \in AddInputs : AddsTask(i) } |-> NewTaskText(inputValue)]

\* part_000 1193-1240 ('add ...') and 1293-1296, 1787-1845 (detectSimpleTask)
SendAdd(inputValue) ==
  /\ MaySend
  /\ inputValue \in DOMAIN NewTaskTexts
  /\ Len(appTodos) < MaxAppTasks
  /\ setTodos(Append(appTodos, AppTodo(now, NewTaskTexts[inputValue])))
  /\ chat' = Said(<< "user", "todo", "bot" >>)
  /\ sentAt' = now
  /\ UNCHANGED << service, parsers, appAI, appProvider, requests >>

\* input.split(' ')[1]
SecondWord(input) ==
  LET first == IndexOf(input, << " " >>, 1)
      second == IndexOf(input, << " " >>, first + 1)
  IN  IF first = 0 THEN << >>
      ELSE SubSeq(input, first + 1, IF second = 0 THEN Len(input) ELSE second - 1)

DigitChars == Chars("0123456789")

RECURSIVE DecimalValue(_)
DecimalValue(digits) ==
  IF digits = << >> THEN 0
  ELSE 10 * DecimalValue(SubSeq(digits, 1, Len(digits) - 1))
       + (CHOOSE d \in 1..10 : DigitChars[d] = digits[Len(digits)]) - 1

\* parseInt(word): white space is skipped, then a sign and the digits that follow
\* are read and what comes after them is ignored; << >> stands for NaN
parseInt(word) ==
  LET start == SkipSpace(word, 1)
      signed == start <= Len(word) /\ word[start] \in {"-", "+"}
      from == IF signed THEN start + 1 ELSE start
      to == SkipDigits(word, from)
  IN  IF to = from THEN << >>
      ELSE << (IF signed /\ word[start] = "-" THEN -1 ELSE 1)
              * DecimalValue(SubSeq(word, from, to - 1)) >>

\* part_000 1245-1246: isNaN(taskIdx) || taskIdx < 0 || taskIdx >= todos.length,
\* where taskIdx = parseInt(input.split(' ')[1]) - 1
NotFound(number, ts) ==
  number = << >> \/ number[1] - 1 < 0 \/ number[1] - 1 >= Len(ts)

\* part_000 1207, 1243-1244: the inputs that are a 'delete' command, with
\* parseInt(input.split(' ')[1])
DeleteNumbers ==
  [inputValue \in { i \in DeleteInputs : StartsAt(toLowerCase(i), Chars("delete "), 1) } |->
     parseInt(SecondWord(toLowerCase(inputValue)))]

\* part_000 1243-1257: 'delete N'
SendDelete(inputValue) ==
  /\ MaySend
  /\ inputValue \in DOMAIN DeleteNumbers
  /\ LET number == DeleteNumbers[inputValue]
     IN  IF NotFound(number, appTodos)
         THEN /\ chat' = Said(<< "user", "notFound" >>)
              /\ UNCHANGED << appTodos, localStorageTodos >>
         ELSE /\ setTodos(SubSeq(appTodos, 1, number[1] - 1)
                            \o SubSeq(appTodos, number[1] + 1, Len(appTodos)))
              /\ chat' = Said(<< "user", "bot" >>)
  /\ sentAt' = now
  /\ UNCHANGED << service, parsers, appAI, appProvider, requests >>

\* part_000 1259-1291: 'clear' and 'clearall'
SendClear(command) ==
  /\ MaySend
  /\ IF command = "clear" /\ Len(appTodos) = 0
     THEN /\ chat' = Said(<< "user", "bot" >>)
          /\ UNCHANGED << appTodos, localStorageTodos >>
     ELSE /\ setTodos(<< >>)
          /\ chat' = IF command = "clear" THEN Said(<< "user", "bot" >>)
                         ELSE [n |-> Min({MaxMessages, Len(<< "bot", "user", "bot" >>)}),
                               last |-> "bot"]
  /\ sentAt' = now
  /\ UNCHANGED << service, parsers, appAI, appProvider, requests >>

\* part_000 1179-1190, called from the check box of a task (1871, 1908)
handleTaskCompletion(k, completed) ==
  /\ k \in 1..Len(appTodos)
  /\ setTodos([n \in 1..Len(appTodos) |->
                 IF appTodos[n].id = appTodos[k].id
                 THEN [appTodos[n] EXCEPT !.completed = completed] ELSE appTodos[n]])
  /\ chat' = IF completed THEN Said(<< "bot" >>) ELSE chat
  /\ UNCHANGED << service, parsers, appAI, appProvider, requests, sentAt >>

\* part_000 1668-1670, 1691-1693
AppExpiryTime(todo, t) ==
  (IF todo.created # 0 THEN todo.created ELSE t - missingCreatedOffset) + timeboxDuration

\* part_000 1674
Countdown(todo, t) == Max({0, AppExpiryTime(todo, t) - t})

\* part_000 1658-1686: the remaining times recomputed
Recounted(ts, t) ==
  [n \in 1..Len(ts) |->
     IF ts[n].completed THEN ts[n] ELSE [ts[n] EXCEPT !.remainingTime = Countdown(ts[n], t)]]

\* part_000 1689-1696: the tasks of the list the interval sees that have just expired
JustExpired(ts, t) ==
  { ts[n].id : n \in { m \in 1..Len(ts) :
      ~ts[m].completed /\ ~ts[m].timeExpired /\ t >= AppExpiryTime(ts[m], t) } }

\* part_000 797-851, 1372-1416: the switch on aiConfig.provider has a case for
\* these and a default that makes no request
PopupIssuesRequest(provider) == provider \in {"openai", "gemini", "openrouter"}

\* What the functions return when the request has failed (part_000 906-909,
\* 1502-1505)
OnError(kind) ==
  IF kind = "generateBlameMessage"
  THEN [pc |-> "idle", returned |-> "messages", blameMessages |-> DEFAULT_BLAME_MESSAGES_popup]
  ELSE [pc |-> "idle", returned |-> "false", blameMessages |-> << >>]

\* part_000 849-850, 1414-1415: the default of the switch
NoRequestMade(kind) == OnError(kind)

\* part_000 1717-1745 (generateBlameMessage(todo).then: one chat message) and
\* 1320-1325 (detectTasksInMessage(...).then: a reply when nothing was detected)
Reply(kind, returned) ==
  IF kind = "generateBlameMessage" THEN << "bot" >>
  ELSE IF returned = "true" THEN << >> ELSE << "bot" >>

AfterReply(kind, returned) ==
  IF Reply(kind, returned) = << >> THEN chat ELSE Said(Reply(kind, returned))

\* part_000 1654-1782: one run of the interval callback.  One request of each
\* kind is followed at a time.  Without AI every task that has just expired gets
\* its template message in the chat (1746-1752).
Tick ==
  /\ Len(appTodos) > 0
  /\ setTodos([n \in 1..Len(appTodos) |->
                 IF appTodos[n].id \in JustExpired(appTodos, now)
                 THEN [Recounted(appTodos, now)[n] EXCEPT !.timeExpired = TRUE]
                 ELSE Recounted(appTodos, now)[n]])
  /\ IF JustExpired(appTodos, now) = {}
     THEN UNCHANGED << requests, chat >>
     ELSE IF ~appAI
     THEN /\ chat' = Said([n \in 1..Cardinality(JustExpired(appTodos, now)) |-> "bot"])
          /\ UNCHANGED requests
     ELSE IF ~PopupIssuesRequest(appProvider)
     THEN /\ chat' = AfterReply("generateBlameMessage", "messages")
          /\ requests' = [requests EXCEPT !["generateBlameMessage"] =
                            NoRequestMade("generateBlameMessage")]
     ELSE /\ requests' =
               IF requests["generateBlameMessage"].pc = "idle"
               THEN [requests EXCEPT !["generateBlameMessage"] = [NoRequest EXCEPT !.pc = "pending"]]
               ELSE requests
          /\ UNCHANGED chat
  /\ UNCHANGED << service, parsers, appAI, appProvider, sentAt >>

\* The popup is closed and opened again: part_000 718-729, 1070-1127, what was in
\* progress is gone
Reopen ==
  /\ appTodos' = localStorageTodos
  /\ requests' = [kind \in RequestKinds |-> NoRequest]
  /\ UNCHANGED << service, parsers, localStorageTodos, appAI, appProvider, chat, sentAt >>

\* The settings panel: setAIConfig
SetAIConfig ==
  /\ appAI' = ~appAI
  /\ UNCHANGED << service, parsers, appTodos, localStorageTodos, appProvider, requests,
                  chat, sentAt >>

\* part_000 1296-1325, 1351-1364: a message that is no command is sent
SendMessage ==
  /\ MaySend
  /\ appAI
  /\ requests["detectTasksInMessage"].pc = "idle"
  /\ IF PopupIssuesRequest(appProvider)
     THEN /\ requests' = [requests EXCEPT !["detectTasksInMessage"] =
                            [NoRequest EXCEPT !.pc = "pending"]]
          /\ chat' = Said(<< "user" >>)
     ELSE /\ requests' = [requests EXCEPT !["detectTasksInMessage"] =
                            NoRequestMade("detectTasksInMessage")]
          /\ chat' = Said(<< "user", "bot" >>)
  /\ sentAt' = now
  /\ UNCHANGED << service, parsers, appTodos, localStorageTodos, appAI, appProvider >>

\* part_000 782-784, 905, 1360-1362, 1501: the timer of the race fires first; the
\* request itself goes on
TimedOut(kind) ==
  /\ requests[kind].pc = "pending"
  /\ requests' = [requests EXCEPT ![kind] = [OnError(kind) EXCEPT !.pc = "timedOut"]]
  /\ chat' = AfterReply(kind, OnError(kind).returned)
  /\ UNCHANGED << service, parsers, appTodos, localStorageTodos, appAI, appProvider, sentAt >>

\* The promise of the race is settled already: what the request does now is not
\* returned to anybody
Settled(kind, outcome) ==
  IF requests[kind].pc = "timedOut" THEN [requests[kind] EXCEPT !.pc = "idle"] ELSE outcome

\* The chat after the function has returned, if it has not returned before
Replied(kind, returned) ==
  IF requests[kind].pc = "timedOut" THEN chat ELSE AfterReply(kind, returned)

\* part_000 864-870, 1427-1435: fetch is rejected or the status is not a success,
\* or the body has not the members read at 872-890, 1441-1451
RequestFails(kind) ==
  /\ requests[kind].pc \in {"pending", "timedOut"}
  /\ requests' = [requests EXCEPT ![kind] = Settled(kind, OnError(kind))]
  /\ chat' = Replied(kind, OnError(kind).returned)
  /\ UNCHANGED << service, parsers, appTodos, localStorageTodos, appAI, appProvider, sentAt >>

\* Answers of the completion service to the popup
BlameAnswers ==
  { Chars("{\"blameMessages\":[\"Do it now!\",\"Hurry up!\"]}"),
    Chars("Just do your leetcode task already, come on!") }

DetectAnswers ==
  { Chars("{\"category\":\"work\",\"detectedTasks\":[{\"text\":\"buy milk\"}]}"),
    Chars("{\"category\":\"general\",\"detectedTasks\":[]}"),
    Chars("{\"detectedTasks\":[null]}"),
    Chars("buy milk") }

\* part_000 881-902: what generateBlameMessage makes of each answer
BlameResults ==
  { IF Len(safeParseJSON(text)) = 0 THEN DEFAULT_BLAME_MESSAGES_popup
    ELSE safeParseJSON(text) : text \in BlameAnswers }

\* part_000 1456: what parseTasks makes of each answer
DetectResults == { parseTasks(text) : text \in DetectAnswers }

\* part_000 872-903: the answer to generateBlameMessage arrives
BlameAnswered ==
  /\ requests["generateBlameMessage"].pc \in {"pending", "timedOut"}
  /\ \E blameMessages \in BlameResults :
       requests' =
         [requests EXCEPT !["generateBlameMessage"] =
            Settled("generateBlameMessage",
                    [pc |-> "idle", returned |-> "messages", blameMessages |-> blameMessages])]
  /\ chat' = Replied("generateBlameMessage", "messages")
  /\ UNCHANGED << service, parsers, appTodos, localStorageTodos, appAI, appProvider, sentAt >>

\* part_000 1465: text: task.text, of a task whose text is a string
DetectedText(task) ==
  IF Get(task, "text").t = "string" THEN Text(Get(task, "text").s) ELSE ""

\* part_000 1438-1497: the answer to detectTasksInMessage arrives; a task found
\* is shown as a card and confirmed (1479-1494)
DetectAnswered ==
  /\ requests["detectTasksInMessage"].pc \in {"pending", "timedOut"}
  /\ \E result \in DetectResults :
       IF Len(result.detectedTasks) = 0
       THEN /\ requests' = [requests EXCEPT !["detectTasksInMessage"] =
                              Settled("detectTasksInMessage",
                                      [NoRequest EXCEPT !.returned = "false"])]
            /\ chat' = Replied("detectTasksInMessage", "false")
            /\ UNCHANGED << appTodos, localStorageTodos >>
       ELSE IF result.detectedTasks[1].t = "null"
       THEN /\ requests' = [requests EXCEPT !["detectTasksInMessage"] =
                              Settled("detectTasksInMessage", OnError("detectTasksInMessage"))]
            /\ chat' = Replied("detectTasksInMessage", "false")
            /\ UNCHANGED << appTodos, localStorageTodos >>
       ELSE /\ Len(appTodos) < MaxAppTasks
            /\ setTodos(Append(appTodos, AppTodo(now, DetectedText(result.detectedTasks[1]))))
            /\ chat' = Said(<< "todo", "bot" >>)
            /\ requests' = [requests EXCEPT !["detectTasksInMessage"] =
                              Settled("detectTasksInMessage",
                                      [NoRequest EXCEPT !.returned = "true"])]
  /\ UNCHANGED << service, parsers, appAI, appProvider, sentAt >>

\* ------------------------------------------------------- specifications
\* A host on which chrome.notifications.create succeeds
InitCreated == Init /\ host = "created"

\* The same, with no aiConfig stored: checkTasks makes no completion request
InitNoAI == InitCreated /\ aiConfig = NoConfig

AllIdle == \A p \in Invocations : inv[p].pc = "idle"

\* The steps of checkTasks and of the dispatcher when no completion request is made
StepsNoAI ==
  \/ \E p \in Invocations : GetResolved(p)
  \/ \E p \in Invocations : MarkResolved(p)
  \/ PushStored

Steps ==
  \/ StepsNoAI
  \/ \E p \in Invocations : AIRespond(p)
  \/ \E p \in Invocations : SaveResolved(p)

\* Overlapping invocations of checkTasks (alarm, popup connect) while the popup
\* changes the task list; no aiConfig stored
Next ==
  \/ Advance
  \/ AddTask
  \/ \E k \in 1..MaxTasks : CompleteTask(k)
  \/ \E k \in 1..MaxTasks : DeleteTask(k)
  \/ OnAlarm
  \/ OnConnect
  \/ StepsNoAI

Spec == InitNoAI /\ [][Next]_vars

\* Ticks one after another: a tick starts when the one before has finished
NextSeq ==
  \/ Advance
  \/ AddTask
  \/ AllIdle /\ OnAlarm
  \/ AllIdle /\ OnConnect
  \/ Steps

SpecSeq == InitCreated /\ [][NextSeq]_vars

\* Any host, no aiConfig stored
InitHost == Init /\ aiConfig = NoConfig

\* Ticks one after another and test notifications
NextHost ==
  \/ Advance
  \/ AddTask
  \/ AllIdle /\ OnAlarm
  \/ AllIdle /\ OnConnect
  \/ StepsNoAI
  \/ TestNotification

SpecHost == InitHost /\ [][NextHost]_vars

\* chrome.storage answers every request of the service worker, so every await of
\* checkTasks on storage and every storage callback comes to run; nothing makes the
\* completion service answer, and generateBlameMessage (background.ts 283-316, 104-217)
\* sets no timer and hands fetch no signal, so no step ends a request by itself
StorageAnswers ==
  /\ WF_vars(PushStored)
  /\ \A p \in Invocations :
       WF_vars(GetResolved(p)) /\ WF_vars(MarkResolved(p)) /\ WF_vars(SaveResolved(p))

SpecLive == InitCreated /\ [][NextSeq]_vars /\ StorageAnswers

\* Ticks one after another, the service worker stopping at any point and
\* starting again (background.ts 657)
NextCrash ==
  \/ NextSeq
  \/ Restart

SpecCrash == InitCreated /\ [][NextCrash]_vars

\* Ticks one after another, the popup completing and deleting tasks meanwhile
NextPopup ==
  \/ NextSeq
  \/ \E k \in 1..MaxTasks : CompleteTask(k)
  \/ \E k \in 1..MaxTasks : DeleteTask(k)

SpecPopup == InitCreated /\ [][NextPopup]_vars

\* Ticks one after another, with the runtime messages of the popup; no aiConfig stored
NextMsg ==
  \/ Advance
  \/ AddTask
  \/ \E k \in 1..MaxTasks : CompleteTask(k)
  \/ AllIdle /\ OnAlarm
  \/ AllIdle /\ OnConnect
  \/ StepsNoAI
  \/ TestNotification
  \/ \E id \in TaskIds : TaskCompleted(id)
  \/ CompletedStored

SpecMsg == InitNoAI /\ [][NextMsg]_vars

\* The popup parsing what the completion service answers
NextParse ==
  \/ Respond
  \/ ParseBlameMessages
  \/ ParseTaskDetection

SpecParse == InitNoAI /\ [][NextParse]_vars

\* The popup alone: its task list, its settings and its completion requests
NextApp ==
  \/ Advance
  \/ \E inputValue \in AddInputs : SendAdd(inputValue)
  \/ \E inputValue \in DeleteInputs : SendDelete(inputValue)
  \/ \E command \in {"clear", "clearall"} : SendClear(command)
  \/ \E k \in 1..MaxAppTasks, completed \in BOOLEAN : handleTaskCompletion(k, completed)
  \/ Tick
  \/ Reopen
  \/ SetAIConfig
  \/ SendMessage
  \/ \E kind \in RequestKinds : TimedOut(kind)
  \/ \E kind \in RequestKinds : RequestFails(kind)
  \/ BlameAnswered
  \/ DetectAnswered

\* part_000 42, 744-747: the popup's aiConfig is what localStorage holds, with a
\* provider of the type AIConfig
InitApp == InitWith({NoConfig}, {"created"}, {"openrouter", "deepseek"})

SpecApp == InitApp /\ [][NextApp]_vars

\* The two schedulers: the interval of the popup on its list, and ticks of the
\* service worker one after another on the stored list; no aiConfig stored
NextTick ==
  \/ Advance
  \/ AddTask
  \/ AllIdle /\ OnAlarm
  \/ StepsNoAI
  \/ \E inputValue \in AddInputs : SendAdd(inputValue)
  \/ \E k \in 1..MaxAppTasks, completed \in BOOLEAN : handleTaskCompletion(k, completed)
  \/ Tick

SpecTick == InitNoAI /\ [][NextTick]_vars

\* Ticks one after another and restarts of the service worker, whatever aiConfig
\* the storage holds
SpecConfig == InitWith(StoredConfigs, {"created"}, {"openrouter"}) /\ [][NextCrash]_vars

\* Ticks one after another and completions reported by the popup, on a host where
\* chrome.notifications.create succeeds at once or only in its retry; no aiConfig
\* stored
NextClear ==
  \/ Advance
  \/ AddTask
  \/ \E k \in 1..MaxTasks : CompleteTask(k)
  \/ AllIdle /\ OnAlarm
  \/ StepsNoAI
  \/ \E id \in TaskIds : TaskCompleted(id)
  \/ CompletedStored

SpecClear == InitWith({NoConfig}, {"created", "retried"}, {"openrouter"}) /\ [][NextClear]_vars

\* Ticks one after another on a list that may hold tasks without created; no
\* aiConfig stored
NextLegacy ==
  \/ Advance
  \/ AddTask
  \/ AddTaskWithoutCreated
  \/ AllIdle /\ OnAlarm
  \/ StepsNoAI

SpecLegacy == InitNoAI /\ [][NextLegacy]_vars

\* ---------------------------------------------------------------- claims
DispatchPending(id) ==
  \E k \in 1..Len(cbq) : cbq[k].kind = "push" /\ cbq[k].taskId = id

InPipeline(id) ==
  \E p \in Invocations :
    inv[p].pc \in {"set1", "ai", "set2"} /\ inv[p].todos[inv[p].i].id = id

\* C1: with ticks one after another, a non-completed task without dueDate is
\* flagged timeExpired once a tick whose now >= created + 10 s has finished, and
\* pendingBlameMessages then holds exactly one entry with its id, never two
C1_ExpiredOnceNotified ==
  \A k \in 1..Len(todos) :
    (~todos[k].completed /\ todos[k].dueDate = 0 /\ todos[k].created # 0) =>
      /\ EntriesFor(pendingBlameMessages, todos[k].id) <= 1
      /\ doneNow >= todos[k].created + timeboxDuration =>
           /\ todos[k].timeExpired
           /\ (~DispatchPending(todos[k].id) /\ ~InPipeline(todos[k].id)) =>
                EntriesFor(pendingBlameMessages, todos[k].id) = 1

\* A further tick has read the flag of a task that expired and was notified
C1_Witness ==
  \E k \in 1..Len(todos), p \in Invocations :
    /\ ~todos[k].completed /\ todos[k].dueDate = 0 /\ todos[k].timeExpired
    /\ doneNow >= todos[k].created + timeboxDuration
    /\ EntriesFor(pendingBlameMessages, todos[k].id) = 1
    /\ inv[p].pc = "get"
    /\ HasTask(inv[p].todos, todos[k].id)
    /\ TaskOf(inv[p].todos, todos[k].id).timeExpired

\* C2: under overlapping invocations each task goes false -> true exactly once
\* and pushNotificationImmediately is called at most once for it
C2_ExpiresOnce ==
  \A id \in TaskIds : nExpired[id] <= 1 /\ nPush[id] <= 1

\* C3: a task completed before its expiry time is never flagged timeExpired by a
\* tick and no notification is produced for it
C3_CompletedNeverExpires ==
  \A id \in doneEarly : nExpired[id] = 0 /\ nPush[id] = 0

\* C4: the flag is written before the request and the dispatch, so with the
\* service worker stopping anywhere a task is transitioned at most once and at
\* most one notification is dispatched for it
C4_WriteBeforeNotify ==
  \A id \in TaskIds :
    /\ nExpired[id] <= 1
    /\ nRequest[id] <= nExpired[id]
    /\ nPush[id] <= nExpired[id]

\* The worker stopped between the write of the flag and the dispatch, and
\* checkTasks has run again: the flag stands, the notification was missed
C4_Witness ==
  \E k \in 1..Len(todos) :
    /\ todos[k].timeExpired
    /\ nExpired[todos[k].id] = 1
    /\ nPush[todos[k].id] = 0
    /\ AllIdle /\ cbq = << >> /\ doneNow >= ExpiryTime(todos[k], doneNow)

\* C5: for every raw text safeParseJSON returns, without throwing, a result whose
\* blameMessages has at least one element
C5_NeverEmpty ==
  blameResult.returned => Len(blameResult.blameMessages) >= 1

\* A blameMessages field holding an empty array has been parsed: nothing was left
\* after filtering and the default set came back
C5_Witness ==
  /\ blameResult.returned
  /\ response.text = Chars("{\"blameMessages\":[]}")
  /\ blameResult.blameMessages = DEFAULT_BLAME_MESSAGES_popup

\* C6: for every raw text parseTasks returns, without throwing, a result whose
\* category is a string
C6_CategoryIsString ==
  taskResult.returned => taskResult.category.t = "string"

\* C7: a dispatch that ends a reminder pipeline is made only for a task that is
\* still stored and not completed at the time of the dispatch
C7_DropsStaleDispatch ==
  [][\A id \in TaskIds :
       (nRequest[id] > 0 /\ nPush'[id] > nPush[id]) =>
         (HasTask(todos, id) /\ ~TaskOf(todos, id).completed)]_vars

\* C8: once the taskCompleted handler for X and the dispatches in progress have
\* finished, pendingBlameMessages holds no entry with taskId X
C8_NoStaleEntry ==
  \A id \in quiet :
    (~DispatchPending(id) /\ ~InPipeline(id)) =>
      EntriesFor(pendingBlameMessages, id) = 0

\* C9: no write of checkTasks removes a stored task, brings back a deleted one
\* or undoes a completion
C9_KeepsPopupChanges ==
  [][inv' # inv =>
       /\ \A k \in 1..Len(todos) :
            /\ HasTask(todos', todos[k].id)
            /\ todos[k].completed => TaskOf(todos', todos[k].id).completed
       /\ \A k \in 1..Len(todos') : HasTask(todos, todos'[k].id)]_vars

\* C10: with no completion handled, once the dispatches have finished the queue
\* holds one entry per call of pushNotificationImmediately
C10_NoEntryLost ==
  (handled = {} /\ \A k \in 1..Len(cbq) : cbq[k].kind # "push") =>
    Len(pendingBlameMessages) = nDispatch

\* C11: the callback of the taskCompleted handler for X removes exactly the
\* entries with taskId X: the other entries stay, in their order, and the stored
\* task list is not modified
C11_RemovesOnlyMatching ==
  [][CompletedStored =>
       /\ pendingBlameMessages' =
            SelectSeq(pendingBlameMessages, LAMBDA e : e.taskId # Head(cbq).taskId)
       /\ todos' = todos]_vars

\* C12: when the reminder pipeline of an expired task has failed, the
\* notification dispatched for the task carries the template message built from
\* the task's text
C12_FailureGivesTemplate ==
  \A k \in 1..Len(cbq) :
    (cbq[k].kind = "push" /\ cbq[k].failed) =>
      cbq[k].message = TemplateMessage([text |-> TaskText(cbq[k].taskId)])

\* C13: every completion request resolves or is cut off by a timeout: every task
\* whose flag has been set is eventually dispatched a notification and every
\* invocation of checkTasks ends, even if the completion service never answers
C13_RequestsEnd ==
  /\ \A id \in TaskIds : (nExpired[id] > 0) ~> (nPush[id] > 0)
  /\ \A p \in Invocations : (inv[p].pc # "idle") ~> (inv[p].pc = "idle")

\* C14: within a tick the loop never waits for the reminder pipeline of a task
\* before it evaluates the next one: while the completion request of a task is
\* outstanding, no later task of the list read by that tick, past its expiry time
\* at the tick's now, is still waiting for its evaluation and transition
C14_LoopNeverWaits ==
  \A p \in Invocations :
    inv[p].pc = "ai" => NextExpired(inv[p].todos, inv[p].i + 1, inv[p].now) = 0

\* C15: a new task starts open, and Expired is terminal: once a task is flagged
\* timeExpired (and not completed), no step other than its deletion changes its
\* state: it does not become completed and its flag does not return to false
C15_ExpiredIsTerminal ==
  [][/\ nextId' # nextId =>
          ~todos'[Len(todos')].completed /\ ~todos'[Len(todos')].timeExpired
     /\ \A k \in 1..Len(todos) :
          (todos[k].timeExpired /\ ~todos[k].completed /\ HasTask(todos', todos[k].id)) =>
            /\ TaskOf(todos', todos[k].id).timeExpired
            /\ ~TaskOf(todos', todos[k].id).completed]_vars

\* The dispatches whose storage get has been issued and not yet answered
Pushes(q) == Cardinality({ k \in 1..Len(q) : q[k].kind = "push" })

\* C16: the three side effects of a dispatch succeed independently: whatever
\* fails or throws, every effect whose own call does not fail takes place: the
\* badge is set, the get that appends the entry is issued, the notification exists
C16_EffectsIndependent ==
  [][nDispatch' > nDispatch =>
       /\ host # "badgeThrows" => badge'
       /\ host # "storageThrows" => Pushes(cbq') = Pushes(cbq) + 1
       /\ host \notin {"retried", "rejected", "createThrows"} =>
            \E id \in {NoTask} \cup TaskIds : << id, FALSE >> \in notifications']_vars

\* C17: safeParseJSON of the text {"blameMessages":["Do it now!","Hurry up!"]}
\* returns exactly the two messages "Do it now!" and "Hurry up!"
C17_ScenarioA ==
  (blameResult.returned
   /\ response.text = Chars("{\"blameMessages\":[\"Do it now!\",\"Hurry up!\"]}")) =>
    blameResult.blameMessages = Strings(<< Chars("Do it now!"), Chars("Hurry up!") >>)

\* The texts of the objects with a blameMessages array, each with its fenced forms
FencedBlameMessages ==
  UNION { { << fenced, stringify(obj) >> : fenced \in Fenced(stringify(obj)) } :
            obj \in { o \in Objects : Get(o, "blameMessages").t = "array" } }

\* C18: wrapping the text of a JSON object with a blameMessages array in a fenced
\* code block, with or without the json tag, does not change the result
C18_FenceChangesNothing ==
  \A pair \in FencedBlameMessages :
    (blameResult.returned /\ response.text = pair[1]) =>
      blameResult.blameMessages = safeParseJSON(pair[2])

\* C19: for the brace-free prose 'Just do your leetcode task already, come on!'
\* the result is not the default set: it is non-empty and each of its messages is
\* a sentence of the input, trimmed, with '!' added
C19_ProseIsSplit ==
  (blameResult.returned
   /\ response.text = Chars("Just do your leetcode task already, come on!")) =>
    /\ Len(blameResult.blameMessages) >= 1
    /\ blameResult.blameMessages # DEFAULT_BLAME_MESSAGES_popup
    /\ \A n \in 1..Len(blameResult.blameMessages) :
         \E sentence \in Range(split(response.text)) :
           blameResult.blameMessages[n] = JString(trim(sentence) \o << "!" >>)

\* C20: whatever stage produced it, no message of the result is longer than 150
\* characters
C20_AtMost150 ==
  blameResult.returned =>
    \A n \in 1..Len(blameResult.blameMessages) :
      blameResult.blameMessages[n].t = "string" =>
        Len(blameResult.blameMessages[n].s) <= 150

\* C21: no message safeParseJSON returns is the literal field name
\* "blameMessages", whichever stage extracted it; an array holding nothing but
\* the field name gives the built-in default set.
C21_NoFieldName ==
  blameResult.returned =>
    /\ \A n \in 1..Len(blameResult.blameMessages) :
          blameResult.blameMessages[n] # JString(Chars("blameMessages"))
    /\ response.text = Chars("{\"blameMessages\":[\"blameMessages\"]}")
          => blameResult.blameMessages = DEFAULT_BLAME_MESSAGES_popup

\* C22: the built-in default set, fed back as the object whose blameMessages is
\* that set, comes out the same: same elements, same order, same count.
C22_DefaultsIdempotent ==
  (blameResult.returned /\ response.text = stringify(DefaultsObject))
    => blameResult.blameMessages = DEFAULT_BLAME_MESSAGES_popup

\* The text parseTasks hands to JSON.parse does not parse, or line 1541 throws
ParseFails(raw) ==
  LET parsedJson == JSONparse(StripToBraces(Unfenced(raw)))
  IN  ~parsedJson.ok \/ DetectedThrows(parsedJson.v)

\* C23: when parseTasks fails and extracts no task, what it returns has the
\* category "general" and a detectedTasks that is present and empty.
C23_SafeDefault ==
  (taskResult.returned /\ ParseFails(response.text) /\ taskResult.detectedTasks = << >>)
    => taskResult.category = General /\ taskResult.hasDetectedTasks

\* C24: an empty canonical field does not stop the cascade: with blameMessages
\* (detectedTasks) empty and trollReminders (tasks) holding usable entries, the
\* result is made of the entries of the synonym.
C24_SynonymAfterEmptyCanonical ==
  /\ (blameResult.returned
        /\ response.text = Chars("{\"blameMessages\":[],\"trollReminders\":[\"Do it now!\"]}"))
       => blameResult.blameMessages = << JString(Chars("Do it now!")) >>
  /\ (taskResult.returned /\ response.text = stringify(EmptyCanonicalTasks))
       => /\ taskResult.hasDetectedTasks
          /\ taskResult.detectedTasks =
               << DetectedTask(JString(Chars("Finish the report today")), Undefined) >>

\* C25: a request cut off by its timer ends as a failed request does:
\* generateBlameMessage returns the built-in default set, detectTasksInMessage
\* returns false, and the task list is left as it was, also by what the request
\* does after the timer has fired.
C25_TimeoutLikeFailure ==
  [][ \A kind \in RequestKinds :
        /\ (requests[kind].pc = "pending" /\ requests'[kind].pc = "timedOut")
             => /\ requests'[kind].returned = OnError(kind).returned
                /\ requests'[kind].blameMessages = OnError(kind).blameMessages
                /\ appTodos' = appTodos
        /\ (/\ requests[kind].pc = "timedOut"
            /\ requests'[kind].pc = "idle"
            /\ requests'[kind].returned = requests[kind].returned)
             => appTodos' = appTodos ]_vars

\* C26: the list the popup loads when it starts is the list as the last
\* mutation left it, an empty list included.
C26_LoadsLastList == [][Reopen => appTodos' = appTodos]_vars

\* C27: the tasks of the list have pairwise distinct ids, and a task keeps
\* its id.
C27_IdsDistinctAndStable ==
  [][ /\ \A j, k \in 1..Len(appTodos') : j # k => appTodos'[j].id # appTodos'[k].id
      /\ Len(appTodos') >= Len(appTodos)
           => \A k \in 1..Len(appTodos) : appTodos'[k].id = appTodos[k].id ]_vars

\* C28: after a tick at time t every non-completed task has remainingTime =
\* max(0, expiry - t), expiry being the dueDate if the task has one and
\* created + timeboxDuration otherwise: on the list of the popup after a run
\* of its interval, on the stored list after a run of checkTasks.
C28_RemainingTime ==
  [][ /\ Tick => \A k \in 1..Len(appTodos') :
                   ~appTodos'[k].completed
                     => appTodos'[k].remainingTime
                          = Max({0, appTodos'[k].created + timeboxDuration - now})
      /\ doneNow' # doneNow
           => \A k \in 1..Len(todos') :
                ~todos'[k].completed
                  => todos'[k].remainingTime
                       = Max({0, ExpiryTime(todos'[k], doneNow') - doneNow'}) ]_vars

\* C29: a task's customBlameMessages, once set, is never written again, and it
\* is never the built-in default set that a failed request returns.
C29_CustomSetOnce ==
  [][ /\ \A k \in 1..Len(todos') :
           todos'[k].customBlameMessages # DEFAULT_BLAME_MESSAGES
      /\ \A k \in 1..Len(todos) :
           (todos[k].customBlameMessages # << >> /\ HasTask(todos', todos[k].id))
             => TaskOf(todos', todos[k].id).customBlameMessages
                  = todos[k].customBlameMessages ]_vars

\* C30: when the strict parse fails on a response of fewer than 100 characters
\* with no blank line, parseTasks returns one task whose text is the whole
\* response, trimmed, with the category "general".
C30_WholeTextIsTheTask ==
  (/\ taskResult.returned
   /\ ParseFails(response.text)
   /\ Len(response.text) < 100
   /\ ~includes(response.text, "\n\n"))
    => /\ taskResult.category = General
       /\ taskResult.hasDetectedTasks
       /\ taskResult.detectedTasks =
            << DetectedTask(JString(trim(response.text)), Undefined) >>

\* C36: when aiConfig.enabled is false or the API key is empty, also when no
\* aiConfig is stored, an expiry in checkTasks issues no completion request,
\* leaves customBlameMessages unset and dispatches exactly one notification,
\* which carries the template message built from the text of the task
C36_NoAIGivesTemplate ==
  [][\A p \in Invocations :
       ( /\ MarkResolved(p)
         /\ ~inv[p].aiConfig.enabled \/ inv[p].aiConfig.apiKey = "" )
       => /\ nRequest' = nRequest
          /\ inv'[p].pc # "ai"
          /\ \A k \in 1..Len(todos') : todos'[k].customBlameMessages = << >>
          /\ \A k \in 1..Len(inv[p].todos) : inv[p].todos[k].customBlameMessages = << >>
          /\ nDispatch' = nDispatch + 1
          /\ nPush' = Bump(nPush, inv[p].todos[inv[p].i].id)
          /\ cbq'[Len(cbq)].kind = "push"
          /\ cbq'[Len(cbq)].taskId = inv[p].todos[inv[p].i].id
          /\ cbq'[Len(cbq)].message = "Het gio cho cong viec: " \o inv[p].todos[inv[p].i].text
          /\ << inv[p].todos[inv[p].i].id, FALSE >> \in notifications'
  ]_vars

\* C36: a task has expired with no aiConfig stored and has been dispatched
C36_Witness ==
  /\ aiConfig = NoConfig
  /\ \E id \in TaskIds : nPush[id] = 1 /\ nRequest[id] = 0 /\ << id, FALSE >> \in notifications

\* C39: checkAndUpdateAISettings keeps a provider the user configured from the
\* supported set (openai, gemini, openrouter), only fills in a missing provider
\* or a missing enabled flag, and writes nothing when it runs a second time
C39_SettingsCheckKeepsProvider ==
  [][Restart =>
       /\ (aiConfig.present /\ aiConfig.provider \in {"openai", "gemini", "openrouter"})
            => aiConfig'.provider = aiConfig.provider
       /\ (aiConfig.present /\ aiConfig.hasEnabled) => aiConfig'.enabled = aiConfig.enabled
       /\ aiConfig'.apiKey = aiConfig.apiKey
       /\ aiConfig'.provider # "" /\ aiConfig'.hasEnabled
       /\ ~NeedsUpdate(aiConfig')
  ]_vars

\* C31: with AI enabled and a key set, reminder generation and task detection
\* issue a completion request for each of OpenAI, Gemini, DeepSeek and OpenRouter:
\* the service worker when a task expires, the popup when a task expires and no
\* request is under way, and the popup when a message that is no command is sent
C31_EveryProviderIssuesRequest ==
  [][ /\ \A p \in Invocations :
           (/\ MarkResolved(p)
            /\ inv[p].aiConfig.enabled
            /\ inv[p].aiConfig.apiKey # ""
            /\ inv[p].aiConfig.provider \in Providers)
             => nRequest' # nRequest
      /\ (/\ Tick
          /\ appAI
          /\ appProvider \in Providers
          /\ JustExpired(appTodos, now) # {}
          /\ requests["generateBlameMessage"].pc = "idle")
           => requests'["generateBlameMessage"].pc = "pending"
      /\ (SendMessage /\ appProvider \in Providers)
           => requests'["detectTasksInMessage"].pc = "pending" ]_vars

\* The popup's conjuncts of C31 alone
C31_PopupIssuesRequest ==
  [][ (SendMessage /\ appProvider \in Providers)
        => requests'["detectTasksInMessage"].pc = "pending" ]_vars

\* The text after 'delete ' is a number: digits and nothing else
IsNumeral(word) == word # << >> /\ \A i \in 1..Len(word) : word[i] \in Digits

\* C32: 'delete N' removes the N-th task (counted from 1) and leaves the others as
\* they are and in their order; when N is not a number or is outside 1..length the
\* list is unchanged and the reply is the error message
C32_DeleteNth ==
  [][ \A inputValue \in DeleteInputs :
        SendDelete(inputValue) =>
          LET word == SubSeq(inputValue, 8, Len(inputValue))
          IN  IF IsNumeral(word) /\ DecimalValue(word) \in 1..Len(appTodos)
              THEN appTodos' = SubSeq(appTodos, 1, DecimalValue(word) - 1)
                                 \o SubSeq(appTodos, DecimalValue(word) + 1, Len(appTodos))
              ELSE appTodos' = appTodos /\ chat'.last = "notFound" ]_vars

\* C33: once detectTasksInMessage has returned because its timer fired, the
\* answer of the request that is still under way adds no task and no chat message
C33_LateAnswerHasNoEffect ==
  [][ (DetectAnswered /\ requests["detectTasksInMessage"].pc = "timedOut")
        => appTodos' = appTodos /\ chat' = chat ]_vars

\* C34: every task of the popup's list has a display text that is not empty
C34_TextNotEmpty == \A k \in 1..Len(appTodos) : appTodos[k].text # ""

\* The tasks of the list checkTasks has read that are past their expiry time at the
\* time of the tick and not completed
DueAt(ts, t) == { k \in 1..Len(ts) : ~ts[k].completed /\ t >= ExpiryTime(ts[k], t) }

\* C35: an error while checkTasks processes one task (a rejected storage write, a
\* throw of the dispatch) does not stop the tick: when the invocation ends, every
\* task of its list that was due has been evaluated and flagged in the list, and
\* the invocation ends by leaving the loop, never by an error
C35_ErrorDoesNotStopTick ==
  [][ \A p \in Invocations :
        (inv[p].pc \in {"set1", "rejected", "set2", "ai"} /\ inv'[p].pc = "idle")
          => /\ \A k \in DueAt(inv[p].todos, inv[p].now) : inv[p].todos[k].timeExpired
             /\ NextExpired(inv[p].todos, inv[p].i + 1, inv[p].now) = 0
             /\ doneNow' = inv[p].now ]_vars

\* C35: the write for the first task was rejected; the same tick has gone on to
\* the second task, has flagged it and has dispatched for it
C35_Witness ==
  /\ host = "setRejects"
  /\ starts = 1
  /\ AllIdle
  /\ doneNow # 0
  /\ Len(todos) = MaxTasks
  /\ nExpired[todos[1].id] = 0 /\ nPush[todos[1].id] = 0
  /\ nExpired[todos[2].id] = 1 /\ nPush[todos[2].id] = 1

\* C37: every platform notification that pushNotificationImmediately has created
\* for a task, the one of its retry included, is cleared by taskCompleted: after
\* the handler has run for a task no notification of this task exists
C37_CompletedClearsNotifications ==
  [][ \A id \in TaskIds :
        TaskCompleted(id) => \A n \in notifications' : n[1] # id ]_vars

TimesFrom(t) == { t + n * ClockStep : n \in 0..((2 * timeboxDuration) \div ClockStep) }

\* C40: every stored task that is not completed comes to expire as time advances,
\* also one stored without created and without dueDate: there is a time at which
\* checkTasks finds it expired, and its expiry time is not moved by the clock
C40_ExpiryDoesNotMove ==
  /\ [](\A k \in 1..Len(todos) :
          ~todos[k].completed => \E t \in TimesFrom(now) : IsExpired(todos[k], t))
  /\ [][ \A k \in 1..Len(todos) :
           ExpiryTime(todos[k], now') = ExpiryTime(todos[k], now) ]_vars

====
